---- MODULE Spec2Model ----
(***************************************************************************)
(* Economic core of the Dino Fighter G1 DApp (src/App.js): the staking     *)
(* slot purchase, the raffle ticket purchase and the multi-epoch token     *)
(* sale, over per-user documents of the persistence service.               *)
(*                                                                         *)
(* Every React component keeps a copy of its document in component state   *)
(* ("memory"); the documents themselves are the persisted record.  An      *)
(* async handler is split at its awaits: what it captured when it was      *)
(* invoked (its closure) lives in a frame variable until it resumes.       *)
(* A write either commits or is rejected by the persistence service.       *)
(*                                                                         *)
(* Amounts of $eDINOSUR are whole tokens.  USD amounts are in units of     *)
(* 1/UsdScale dollar and token amounts of the sale in millions of tokens,  *)
(* which keeps amount * price exact for the epochs the model visits.       *)
(***************************************************************************)
EXTENDS Integers, Sequences, FiniteSets, TLC

VARIABLES
    activeSection,      \* App: the section that is mounted
    modalMessage,       \* App: the outcome last reported to the user
    stakingDoc,         \* persisted: users/<uid>/data/staking
    raffleDoc,          \* persisted: users/<uid>/data/raffle
    stakedNFTs,         \* NFTStakingSection state
    totalEarned,        \* NFTStakingSection state
    loadingNFTs,        \* NFTStakingSection state
    addSlot,            \* frame of handleAddSlot
    ticketQuantity,     \* RaffleSlotSection state
    totalCost,          \* RaffleSlotSection state
    ticketCount,        \* RaffleSlotSection state
    loadingTickets,     \* RaffleSlotSection state
    buyTickets,         \* frame of handleBuyTickets
    now,                \* the wall clock, in days since the session began
    saleStartTime,      \* EDinosurSaleSection saleStartTimeRef.current
    saleStarted,        \* EDinosurSaleSection state
    currentEpoch,       \* EDinosurSaleSection state
    currentPrice,       \* EDinosurSaleSection state
    userPurchasedUSD,   \* EDinosurSaleSection state (lifetime total)
    userPurchasedUSDInCurrentEpoch, \* EDinosurSaleSection state
    lastPurchaseEpoch,  \* EDinosurSaleSection state
    loadingPurchaseData, \* EDinosurSaleSection state
    saleDoc,            \* persisted: users/<uid>/data/eDinoSalePurchases
    buyFrames,          \* frames of the handleBuy calls in flight
    paidInEpoch,        \* history: USD of the purchases committed in the
                        \* epoch that contains now
    saleStarts,         \* history: the start date computed at each mount of
                        \* the sale view, in order
    seenLive,           \* history: a tick of this session has reported Live
    lastReport,         \* history: what the latest tick reported
    probe,              \* the latest application of a pricing or multiplier
                        \* function: its arguments and its result
    eDinosurBalance,    \* EDinosurSection state
    readyToBurnEDinosur, \* EDinosurSection state
    totalBurntEDinosur, \* EDinosurSection state
    loadingEDinosur,    \* EDinosurSection state
    burnStatsDoc,       \* persisted: public/data/dinosur_burn_stats/global_stats
    readyToBurnDinosur, \* DinosurCoinSection state
    totalBurntDinosur,  \* DinosurCoinSection state
    loadingBurnStats,   \* DinosurCoinSection state
    alertMessage,       \* the outcome last reported with alert()
    isSpinning,         \* RaffleSlotSection state
    spinIntervals,      \* the intervals of handleSpin that run, oldest first:
                        \* each holds the closure of the render that was clicked
    affiliateDoc,       \* persisted: users/<uid>/data/affiliate
    referralCount,      \* AffiliatePagesSection state
    referralEarnings,   \* AffiliatePagesSection state
    loadingAffiliateData, \* AffiliatePagesSection state
    claimFrames,        \* frames of the handleClaimReferralEarnings calls in
                        \* flight
    accrualIntervals,   \* the intervals set by the accrual effect of
                        \* NFTStakingSection and not cleared
    saleIntervals,      \* the intervals set by the countdown effect of
                        \* EDinosurSaleSection and not cleared
    assetsHad,          \* history: the id and tier of every asset that the
                        \* staking view has shown or the document has held
    referralUnclaimed,  \* history: the referral earnings the ticks accrued less
                        \* the referral earnings credited to the reward balance
    lastTick            \* history: the time of the latest accrual tick of the
                        \* staking view, or of the latest (re)start of its
                        \* interval if that is later

eDinosurVars == <<eDinosurBalance, readyToBurnEDinosur, totalBurntEDinosur,
                  loadingEDinosur>>

dinosurVars == <<burnStatsDoc, readyToBurnDinosur, totalBurntDinosur,
                 loadingBurnStats, alertMessage>>

spinVars == <<isSpinning, spinIntervals>>

affiliateVars == <<affiliateDoc, referralCount, referralEarnings,
                   loadingAffiliateData, claimFrames>>

viewsVars == <<probe, eDinosurVars, dinosurVars, spinVars, affiliateVars>>

ledgerVars == <<viewsVars, lastTick, referralUnclaimed, assetsHad, accrualIntervals>>

holderVars == <<stakingDoc, raffleDoc, stakedNFTs, totalEarned, loadingNFTs,
                addSlot, ticketQuantity, totalCost, ticketCount,
                loadingTickets, buyTickets, ledgerVars>>

saleViewVars == <<saleStartTime, saleStarted, currentEpoch, currentPrice,
                  userPurchasedUSD, userPurchasedUSDInCurrentEpoch,
                  lastPurchaseEpoch, loadingPurchaseData, saleDoc, buyFrames,
                  paidInEpoch, saleStarts, seenLive, lastReport,
                  saleIntervals>>

saleVars == <<now, saleViewVars>>

vars == <<activeSection, modalMessage, holderVars, saleVars, ledgerVars>>

---------------------------------------------------------------------------
(* Bounds of the model *)

MaxQuantity == 3
MaxTickets == 3
MaxInFlight == 2
MaxEpoch == 1
MaxMounts == 2
MaxAssets == 3
MaxSlotCount == 8
MaxDays == 1
MaxReferrals == 1
MaxSymbols == 3
MaxStakingDays == 6

(* What earlier sessions can have left in the staking document. *)
InitBalances == {0, 200000, 500000}
InitSlotCounts == {0, 4}

---------------------------------------------------------------------------
(* Program constants *)

BASE_ADD_SLOT_EDINOSUR_COST == 200000
\* 0.5 and 0.1 in the source, as percentages
ADD_SLOT_BURN_AMOUNT_PERCENTAGE == 50
EDINOSUR_TICKET_COST == 50000
EDINOSUR_BURN_AMOUNT_PERCENTAGE == 10

epochDurationDays == 7
SaleDelayDays == 45
MAX_EPOCH_PURCHASE_USD == 250
MAX_WALLET_PURCHASE_USD == 1000
\* useRef(null)
NullDate == -1

RECURSIVE Pow(_, _)
Pow(b, e) == IF e = 0 THEN 1 ELSE b * Pow(b, e - 1)

Max(S) == CHOOSE x \in S : \A y \in S : y <= x

---------------------------------------------------------------------------
(* NFTStakingSection *)

SeedNFTs ==
    << [id |-> 1, type |-> "Common", earning |-> 5000, staked |-> FALSE, lastStakedTime |-> 0],
       [id |-> 2, type |-> "Rare", earning |-> 10000, staked |-> FALSE, lastStakedTime |-> 0],
       [id |-> 3, type |-> "Unique", earning |-> 15000, staked |-> FALSE, lastStakedTime |-> 0] >>

NewSlot(newId) ==
    [id |-> newId, type |-> "New Slot", earning |-> 0, staked |-> FALSE, lastStakedTime |-> 0]

AbsentStakingDoc ==
    [exists |-> FALSE, nfts |-> <<>>, earned |-> 0, readyToBurnEDinosur |-> 0,
     totalBurntEDinosur |-> 0]

\* no function has been applied yet
NoProbe == [fn |-> "none", nfts |-> <<>>, slotCount |-> 0, result |-> 0]

\* the multiplier taken over all the NFTs, staked or not
calculateMultiplierOfAll(nfts) ==
    LET types == {nfts[i].type : i \in 1..Len(nfts)}
    IN  IF "Legend" \in types THEN 150
        ELSE IF "King" \in types THEN 130
        ELSE IF "Unique" \in types THEN 115
        ELSE IF "Common" \in types \/ "Rare" \in types THEN 105
        ELSE 100

\* calculateMultiplier(nfts), in percent
calculateMultiplier(nfts) ==
    LET stakedTypes == {nfts[i].type : i \in {j \in 1..Len(nfts) : nfts[j].staked}}
    IN  IF "Legend" \in stakedTypes THEN 150
        ELSE IF "King" \in stakedTypes THEN 130
        ELSE IF "Unique" \in stakedTypes THEN 115
        ELSE IF "Common" \in stakedTypes \/ "Rare" \in stakedTypes THEN 105
        ELSE 100

\* a slot price that starts to grow one slot later
calculateAddSlotCostFromFifth(currentSlotCount) ==
    IF currentSlotCount >= 5
    THEN (BASE_ADD_SLOT_EDINOSUR_COST * Pow(3, currentSlotCount - 4))
             \div Pow(2, currentSlotCount - 4)
    ELSE BASE_ADD_SLOT_EDINOSUR_COST

\* Math.pow(1.5, n - 3) as the exact fraction 3^(n-3) / 2^(n-3)
calculateAddSlotCost(currentSlotCount) ==
    IF currentSlotCount >= 4
    THEN (BASE_ADD_SLOT_EDINOSUR_COST * Pow(3, currentSlotCount - 3))
             \div Pow(2, currentSlotCount - 3)
    ELSE BASE_ADD_SLOT_EDINOSUR_COST

\* the burn share of a slot taken at the ticket rate
SlotBurnAmountAtTicketRate(calculatedCost) ==
    (calculatedCost * EDINOSUR_BURN_AMOUNT_PERCENTAGE) \div 100

SlotBurnAmount(calculatedCost) ==
    (calculatedCost * ADD_SLOT_BURN_AMOUNT_PERCENTAGE) \div 100

\* a slot id that repeats the greatest id
NewSlotIdRepeated(currentNFTs) ==
    IF Len(currentNFTs) > 0
    THEN Max({currentNFTs[i].id : i \in 1..Len(currentNFTs)})
    ELSE 1

NewSlotId(currentNFTs) ==
    IF Len(currentNFTs) > 0
    THEN Max({currentNFTs[i].id : i \in 1..Len(currentNFTs)}) + 1
    ELSE 1

\* a balance check with its operands exchanged
SufficientBalanceSwapped(currentEDinosurBalance, cost) ==
    cost >= currentEDinosurBalance

\* if (currentEDinosurBalance >= calculatedCost), and the same check against
\* totalCost in handleBuyTickets
SufficientBalance(currentEDinosurBalance, cost) ==
    currentEDinosurBalance >= cost

\* the id and tier of the assets of a sequence
AssetsOf(nfts) == {<<nfts[i].id, nfts[i].type>> : i \in 1..Len(nfts)}

\* a cleanup that clears nothing
IntervalsKept(n) == n

\* return () => clearInterval(interval): the cleanup of an effect clears the
\* interval that the run of the effect had set
IntervalsAfterCleanup(n) == IF n > 0 THEN n - 1 ELSE 0

\* an effect runs again after a render that changed one of its dependencies:
\* the cleanup of the earlier run, then setInterval unless the effect returns
\* before it
IntervalsAfterEffect(n, sets) == IntervalsAfterCleanup(n) + (IF sets THEN 1 ELSE 0)

\* onSnapshot(userStakingDocRef, ...); setStakedNFTs is given a new array, so
\* the accrual effect runs again
StakingSnapshot ==
    /\ activeSection = "nft-staking"
    /\ IF stakingDoc.exists
       THEN /\ stakedNFTs' = stakingDoc.nfts
            /\ totalEarned' = stakingDoc.earned
       ELSE /\ stakedNFTs' = SeedNFTs
            /\ totalEarned' = 0
    /\ loadingNFTs' = FALSE
    /\ lastTick' = now
    /\ assetsHad' = assetsHad \cup AssetsOf(stakedNFTs')
    /\ accrualIntervals' = IntervalsAfterEffect(accrualIntervals, TRUE)
    /\ UNCHANGED <<activeSection, modalMessage, stakingDoc, raffleDoc, addSlot,
                   ticketQuantity, totalCost, ticketCount, loadingTickets,
                   buyTickets, saleVars, viewsVars,
                   referralUnclaimed>>

\* handleAddSlot not running.  A call that awaits getDoc is the frame; the
\* calls made after it and still awaiting are behind it, each with its
\* attachment to the mounted view; answers arrive in the order of the calls.
\* overlapped tells that the call was made while an earlier one awaited
IdleAddSlot ==
    [pc |-> "idle", attached |-> FALSE, overlapped |-> FALSE, behind |-> <<>>]

\* handleAddSlot up to its first await (getDoc)
AddSlotClick ==
    /\ activeSection = "nft-staking"
    /\ ~loadingNFTs
    /\ addSlot.pc = "idle"
    /\ addSlot' = [pc |-> "getDoc", attached |-> TRUE, overlapped |-> FALSE,
                   behind |-> <<>>]
    /\ UNCHANGED <<activeSection, modalMessage, stakingDoc, raffleDoc, stakedNFTs,
                   totalEarned, loadingNFTs, ticketQuantity, totalCost,
                   ticketCount, loadingTickets, buyTickets, saleVars, ledgerVars>>

\* handleAddSlot from the result of getDoc to its end; io is what the
\* persistence service does with the read and the write
AddSlotResume(io) ==
    /\ addSlot.pc = "getDoc"
    /\ addSlot' = IF addSlot.behind = <<>>
                  THEN IdleAddSlot
                  ELSE [pc |-> "getDoc", attached |-> Head(addSlot.behind),
                        overlapped |-> TRUE, behind |-> Tail(addSlot.behind)]
    /\ LET currentEDinosurBalance == stakingDoc.earned
           currentReadyToBurnEDinosur == stakingDoc.readyToBurnEDinosur
           currentNFTs == stakingDoc.nfts
           calculatedCost == calculateAddSlotCost(Len(currentNFTs))
           remainingEDinosur == currentEDinosurBalance - calculatedCost
           burnAmount == SlotBurnAmount(calculatedCost)
           newReadyToBurnEDinosur == currentReadyToBurnEDinosur + burnAmount
           updatedNFTs == Append(currentNFTs, NewSlot(NewSlotId(currentNFTs)))
       IN  IF io = "readFails"
           THEN /\ modalMessage' = "PersistenceFailure"
                /\ UNCHANGED <<stakingDoc, stakedNFTs>>
           ELSE IF SufficientBalance(currentEDinosurBalance, calculatedCost)
           THEN /\ stakedNFTs' = IF addSlot.attached THEN updatedNFTs ELSE stakedNFTs
                /\ IF io = "ok"
                   THEN /\ stakingDoc' = [stakingDoc EXCEPT
                                            !.exists = TRUE,
                                            !.nfts = updatedNFTs,
                                            !.earned = remainingEDinosur,
                                            !.readyToBurnEDinosur = newReadyToBurnEDinosur]
                        /\ modalMessage' = "SlotPurchase"
                   ELSE /\ modalMessage' = "PersistenceFailure"
                        /\ UNCHANGED stakingDoc
           ELSE /\ modalMessage' = "InsufficientBalance"
                /\ UNCHANGED <<stakingDoc, stakedNFTs>>
    /\ assetsHad' = assetsHad \cup AssetsOf(stakedNFTs') \cup AssetsOf(stakingDoc'.nfts)
    /\ accrualIntervals' = IF stakedNFTs' # stakedNFTs
                           THEN IntervalsAfterEffect(accrualIntervals, TRUE)
                           ELSE accrualIntervals
    /\ UNCHANGED <<activeSection, raffleDoc, totalEarned, loadingNFTs,
                   ticketQuantity, totalCost, ticketCount, loadingTickets,
                   buyTickets, saleVars, viewsVars, lastTick, referralUnclaimed>>

\* handleAddSlot up to its first await, called while an earlier call still
\* awaits getDoc: the button is not disabled
AddSlotClickAgain ==
    /\ activeSection = "nft-staking"
    /\ ~loadingNFTs
    /\ addSlot.pc = "getDoc"
    /\ Len(addSlot.behind) < MaxInFlight - 1
    /\ addSlot' = [addSlot EXCEPT !.behind = Append(addSlot.behind, TRUE)]
    /\ UNCHANGED <<activeSection, modalMessage, stakingDoc, raffleDoc, stakedNFTs,
                   totalEarned, loadingNFTs, ticketQuantity, totalCost,
                   ticketCount, loadingTickets, buyTickets, saleVars, ledgerVars>>

\* Date.now(): the session begins SessionStart days after the epoch
SessionStart == 1
DateNow == SessionStart + now

\* handleStakeNFT(id): the stake button of an unstaked NFT.  The three
\* callers of updateFirestoreStaking pass stakedNFTs.readyToBurnEDinosur, a
\* property the array does not have; setDoc rejects a field that is
\* undefined before anything is sent, and updateFirestoreStaking catches the
\* error and reports it, so nothing is persisted.
HandleStakeNFT(id) ==
    /\ activeSection = "nft-staking"
    /\ ~loadingNFTs
    /\ \E i \in 1..Len(stakedNFTs) : stakedNFTs[i].id = id /\ ~stakedNFTs[i].staked
    /\ stakedNFTs' = [i \in 1..Len(stakedNFTs) |->
                        IF stakedNFTs[i].id = id
                        THEN [stakedNFTs[i] EXCEPT !.staked = TRUE,
                                                   !.lastStakedTime = DateNow]
                        ELSE stakedNFTs[i]]
    /\ modalMessage' = "Staked"
    /\ lastTick' = now
    /\ accrualIntervals' = IntervalsAfterEffect(accrualIntervals, TRUE)
    /\ UNCHANGED <<activeSection, stakingDoc, raffleDoc, totalEarned, loadingNFTs,
                   addSlot, ticketQuantity, totalCost, ticketCount, loadingTickets,
                   buyTickets, saleVars, viewsVars,
                   referralUnclaimed, assetsHad>>

\* an unstake that takes back the reward the asset has earned so far
HandleUnstakeNFTRepricing(id) ==
    /\ activeSection = "nft-staking"
    /\ ~loadingNFTs
    /\ \E i \in 1..Len(stakedNFTs) : stakedNFTs[i].id = id /\ stakedNFTs[i].staked
    /\ stakedNFTs' = [i \in 1..Len(stakedNFTs) |->
                        IF stakedNFTs[i].id = id
                        THEN [stakedNFTs[i] EXCEPT !.staked = FALSE,
                                                   !.lastStakedTime = 0]
                        ELSE stakedNFTs[i]]
    /\ totalEarned' = 0
    /\ modalMessage' = "Unstaked"
    /\ lastTick' = now
    /\ accrualIntervals' = IntervalsAfterEffect(accrualIntervals, TRUE)
    /\ UNCHANGED <<activeSection, stakingDoc, raffleDoc, loadingNFTs,
                   addSlot, ticketQuantity, totalCost, ticketCount, loadingTickets,
                   buyTickets, saleVars, viewsVars,
                   referralUnclaimed, assetsHad>>

\* handleUnstakeNFT(id): the unstake button of a staked NFT
HandleUnstakeNFT(id) ==
    /\ activeSection = "nft-staking"
    /\ ~loadingNFTs
    /\ \E i \in 1..Len(stakedNFTs) : stakedNFTs[i].id = id /\ stakedNFTs[i].staked
    /\ stakedNFTs' = [i \in 1..Len(stakedNFTs) |->
                        IF stakedNFTs[i].id = id
                        THEN [stakedNFTs[i] EXCEPT !.staked = FALSE,
                                                   !.lastStakedTime = 0]
                        ELSE stakedNFTs[i]]
    /\ modalMessage' = "Unstaked"
    /\ lastTick' = now
    /\ accrualIntervals' = IntervalsAfterEffect(accrualIntervals, TRUE)
    /\ UNCHANGED <<activeSection, stakingDoc, raffleDoc, totalEarned, loadingNFTs,
                   addSlot, ticketQuantity, totalCost, ticketCount, loadingTickets,
                   buyTickets, saleVars, viewsVars,
                   referralUnclaimed, assetsHad>>

\* handleClaimReward: the in-memory earnings are reset; the failure of the
\* write is the last thing reported
HandleClaimReward ==
    /\ activeSection = "nft-staking"
    /\ ~loadingNFTs
    /\ IF totalEarned > 0
       THEN /\ totalEarned' = 0
                    /\ modalMessage' = "PersistenceFailure"
       ELSE /\ modalMessage' = "NothingToClaim"
            /\ UNCHANGED totalEarned
    /\ UNCHANGED <<activeSection, stakingDoc, raffleDoc, stakedNFTs, loadingNFTs,
                   addSlot, ticketQuantity, totalCost, ticketCount, loadingTickets,
                   buyTickets, saleVars, ledgerVars>>

\* the earnings of one day of the staked NFTs: baseDailyEarnings times the
\* multiplier
ActualDailyEarnings(nfts) ==
    LET RECURSIVE Sum(_)
        Sum(n) == IF n = 0 THEN 0
                  ELSE Sum(n - 1) + (IF nfts[n].staked THEN nfts[n].earning ELSE 0)
    IN  (Sum(Len(nfts)) * calculateMultiplier(nfts)) \div 100

\* the callbacks of setInterval(..., 1000) of one day, each adding
\* actualDailyEarnings / 86400 to the in-memory earnings, for every interval
\* of the accrual effect that runs
AccrualDayUntil(lastDay) ==
    /\ activeSection = "nft-staking"
    /\ ~loadingNFTs
    /\ now < lastDay
    /\ now' = now + 1
    /\ totalEarned' = totalEarned + accrualIntervals * ActualDailyEarnings(stakedNFTs)
    /\ lastTick' = now'
    /\ UNCHANGED <<activeSection, modalMessage, stakingDoc, raffleDoc, stakedNFTs,
                   loadingNFTs, addSlot, ticketQuantity, totalCost, ticketCount,
                   loadingTickets, buyTickets, saleViewVars, viewsVars,
                   referralUnclaimed, assetsHad, accrualIntervals>>

AccrualDay == AccrualDayUntil(MaxDays)

\* a day in which the browser runs no callback of the interval (a hidden
\* tab, a suspended machine): the clock advances, the earnings do not
IntervalSuspendedDay(lastDay) ==
    /\ activeSection = "nft-staking"
    /\ ~loadingNFTs
    /\ now < lastDay
    /\ now' = now + 1
    /\ UNCHANGED <<activeSection, modalMessage, holderVars, saleViewVars>>

---------------------------------------------------------------------------
(* RaffleSlotSection *)

AbsentRaffleDoc == [exists |-> FALSE, tickets |-> 0]

IdleBuyTickets ==
    [pc |-> "idle", attached |-> FALSE, ticketCount |-> 0, ticketQuantity |-> 0,
     totalCost |-> 0, earned |-> 0, readyToBurnEDinosur |-> 0]

\* the burn share of a ticket purchase taken at the slot rate
TicketBurnAmountAtSlotRate(cost) ==
    (cost * ADD_SLOT_BURN_AMOUNT_PERCENTAGE) \div 100

TicketBurnAmount(cost) ==
    (cost * EDINOSUR_BURN_AMOUNT_PERCENTAGE) \div 100

\* onSnapshot(userRaffleDocRef, ...)
RaffleSnapshot ==
    /\ activeSection = "raffle-slot"
    /\ ticketCount' = IF raffleDoc.exists THEN raffleDoc.tickets ELSE 0
    /\ loadingTickets' = FALSE
    /\ UNCHANGED <<activeSection, modalMessage, stakingDoc, raffleDoc, stakedNFTs,
                   totalEarned, loadingNFTs, addSlot, ticketQuantity, totalCost,
                   buyTickets, saleVars, ledgerVars>>

\* the quantity input's onChange, with the effect that follows the render:
\* setTotalCost(ticketQuantity * EDINOSUR_TICKET_COST)
SetTicketQuantity(q) ==
    /\ activeSection = "raffle-slot"
    /\ ~loadingTickets
    /\ ticketQuantity' = IF q >= 1 THEN q ELSE 1
    /\ totalCost' = ticketQuantity' * EDINOSUR_TICKET_COST
    /\ UNCHANGED <<activeSection, modalMessage, stakingDoc, raffleDoc, stakedNFTs,
                   totalEarned, loadingNFTs, addSlot, ticketCount, loadingTickets,
                   buyTickets, saleVars, ledgerVars>>

\* handleBuyTickets up to its first await (getDoc); the closure holds the
\* ticketCount, ticketQuantity and totalCost of the render that was clicked
\* (the model stops selling at MaxTickets tickets)
BuyTicketsClick ==
    /\ activeSection = "raffle-slot"
    /\ ~loadingTickets
    /\ buyTickets.pc = "idle"
    /\ ticketCount + ticketQuantity <= MaxTickets
    /\ buyTickets' = [pc |-> "getDoc", attached |-> TRUE, ticketCount |-> ticketCount,
                      ticketQuantity |-> ticketQuantity, totalCost |-> totalCost,
                      earned |-> 0, readyToBurnEDinosur |-> 0]
    /\ UNCHANGED <<activeSection, modalMessage, stakingDoc, raffleDoc, stakedNFTs,
                   totalEarned, loadingNFTs, addSlot, ticketQuantity, totalCost,
                   ticketCount, loadingTickets, saleVars, ledgerVars>>

\* handleBuyTickets from the result of getDoc to the await of
\* updateFirestoreTickets, which catches a rejected write itself
BuyTicketsRead(io) ==
    /\ buyTickets.pc = "getDoc"
    /\ LET currentEDinosurBalance == IF stakingDoc.exists THEN stakingDoc.earned ELSE 0
           currentReadyToBurnEDinosur ==
               IF stakingDoc.exists THEN stakingDoc.readyToBurnEDinosur ELSE 0
           newTicketCount == buyTickets.ticketCount + buyTickets.ticketQuantity
       IN  IF io = "readFails"
           THEN /\ modalMessage' = "PersistenceFailure"
                /\ buyTickets' = IdleBuyTickets
                /\ UNCHANGED <<raffleDoc, ticketCount>>
           ELSE IF SufficientBalance(currentEDinosurBalance, buyTickets.totalCost)
           THEN /\ ticketCount' = IF buyTickets.attached THEN newTicketCount ELSE ticketCount
                /\ IF io = "ok"
                   THEN /\ raffleDoc' = [exists |-> TRUE, tickets |-> newTicketCount]
                        /\ modalMessage' = "TicketPurchase"
                   ELSE /\ modalMessage' = "PersistenceFailure"
                        /\ UNCHANGED raffleDoc
                /\ buyTickets' = [buyTickets EXCEPT
                                    !.pc = "setDoc",
                                    !.earned = currentEDinosurBalance,
                                    !.readyToBurnEDinosur = currentReadyToBurnEDinosur]
           ELSE /\ modalMessage' = "InsufficientBalance"
                /\ buyTickets' = IdleBuyTickets
                /\ UNCHANGED <<raffleDoc, ticketCount>>
    /\ UNCHANGED <<activeSection, stakingDoc, stakedNFTs, totalEarned, loadingNFTs,
                   addSlot, ticketQuantity, totalCost, loadingTickets, saleVars, ledgerVars>>

\* handleBuyTickets from the end of updateFirestoreTickets to its end:
\* updateDoc(userStakingDocRef, {earned, readyToBurnEDinosur})
BuyTicketsDebit(io) ==
    /\ buyTickets.pc = "setDoc"
    /\ buyTickets' = IdleBuyTickets
    /\ LET remainingEDinosur == buyTickets.earned - buyTickets.totalCost
           burnAmount == TicketBurnAmount(buyTickets.totalCost)
           newReadyToBurnEDinosur == buyTickets.readyToBurnEDinosur + burnAmount
       IN  IF io = "ok" /\ stakingDoc.exists
           THEN /\ stakingDoc' = [stakingDoc EXCEPT
                                    !.earned = remainingEDinosur,
                                    !.readyToBurnEDinosur = newReadyToBurnEDinosur]
                /\ UNCHANGED modalMessage
           ELSE /\ modalMessage' = "PersistenceFailure"
                /\ UNCHANGED stakingDoc
    /\ UNCHANGED <<activeSection, raffleDoc, stakedNFTs, totalEarned, loadingNFTs,
                   addSlot, ticketQuantity, totalCost, ticketCount, loadingTickets,
                   saleVars, ledgerVars>>

\* the values the reels can show, told apart by ===
ReelSymbols == 1..MaxSymbols

\* a classification that looks at neighbouring reels only
SpinResultOfNeighbours(finalReel1, finalReel2, finalReel3) ==
    IF finalReel1 = finalReel2 /\ finalReel2 = finalReel3 THEN "Jackpot"
    ELSE IF finalReel1 = finalReel2 \/ finalReel2 = finalReel3 THEN "TwoMatching"
    ELSE "NoWin"

\* spinResult: the class of the final reels
SpinResultOf(finalReel1, finalReel2, finalReel3) ==
    IF finalReel1 = finalReel2 /\ finalReel2 = finalReel3 THEN "Jackpot"
    ELSE IF finalReel1 = finalReel2 \/ finalReel2 = finalReel3
            \/ finalReel1 = finalReel3 THEN "TwoMatching"
    ELSE "NoWin"

\* the classes of the final reels
SpinResults == {"Jackpot", "TwoMatching", "NoWin"}

\* const symbols = ['', '', '', '', '', '']: six entries, each the empty
\* string
symbols == <<"", "", "", "", "", "">>

\* symbols[Math.floor(Math.random() * symbols.length)]: what a draw can give
SymbolDraws == {symbols[i] : i \in 1..Len(symbols)}

\* the spinResult of every draw of finalReel1, finalReel2, finalReel3
SpinDraws ==
    {SpinResultOf(finalReel1, finalReel2, finalReel3) :
        finalReel1 \in SymbolDraws, finalReel2 \in SymbolDraws,
        finalReel3 \in SymbolDraws}

\* a spin that never asks for a ticket
SpinAllowedAlways(tickets) == TRUE

\* a spin that is allowed with no ticket left
SpinAllowedWithoutTicket(tickets) == tickets >= 0

\* if (ticketCount > 0)
SpinAllowed(tickets) == tickets > 0

\* const spinDuration = 2000 (ms)
spinDuration == 2000

\* const spinInterval = 100 (ms)
spinInterval == 100

\* a callback that leaves spinTimer where it was
SpinTimerHeld(spinTimer) == spinTimer

\* spinTimer += spinInterval
SpinTimerAfter(spinTimer) == spinTimer + spinInterval

\* handleSpin up to the start of the interval; the closure of the interval
\* holds the ticketCount of the render that was clicked and its spinTimer,
\* which starts at 0 (at most MaxInFlight intervals run at a time in the
\* model)
HandleSpin ==
    /\ activeSection = "raffle-slot"
    /\ ~loadingTickets
    /\ IF isSpinning
       THEN /\ modalMessage' = "AlreadySpinning"
            /\ UNCHANGED <<isSpinning, spinIntervals>>
       ELSE IF SpinAllowed(ticketCount)
       THEN /\ Len(spinIntervals) < MaxInFlight
            /\ isSpinning' = TRUE
            /\ modalMessage' = "Spinning"
            /\ spinIntervals' = Append(spinIntervals,
                                       [attached |-> TRUE, ticketCount |-> ticketCount,
                                        spinTimer |-> 0])
       ELSE /\ modalMessage' = "NoTicketsAvailable"
            /\ UNCHANGED <<isSpinning, spinIntervals>>
    /\ UNCHANGED <<activeSection, stakingDoc, raffleDoc, stakedNFTs, totalEarned,
                   loadingNFTs, addSlot, ticketQuantity, totalCost, ticketCount,
                   loadingTickets, buyTickets, saleVars, probe, eDinosurVars,
                   dinosurVars, affiliateVars, lastTick, referralUnclaimed, assetsHad, accrualIntervals>>

\* the callbacks of the oldest interval from its spinTimer on, up to and with
\* the one where spinTimer reaches spinDuration, in one step (the callbacks
\* before the last one set the reels only): the interval is cleared, one
\* ticket is consumed and persisted by updateFirestoreTickets, the result of
\* the final reels is reported
SpinFinish(spinResult, io) ==
    /\ spinIntervals # <<>>
    /\ spinIntervals' = Tail(spinIntervals)
    /\ LET spin == Head(spinIntervals)
           newTicketCount == spin.ticketCount - 1
       IN  /\ isSpinning' = IF spin.attached THEN FALSE ELSE isSpinning
           /\ ticketCount' = IF spin.attached THEN newTicketCount ELSE ticketCount
           /\ IF io = "ok"
              THEN /\ raffleDoc' = [exists |-> TRUE, tickets |-> newTicketCount]
                   /\ modalMessage' = spinResult
              ELSE /\ modalMessage' = "PersistenceFailure"
                   /\ UNCHANGED raffleDoc
    /\ UNCHANGED <<activeSection, stakingDoc, stakedNFTs, totalEarned, loadingNFTs,
                   addSlot, ticketQuantity, totalCost, loadingTickets, buyTickets,
                   saleVars, probe, eDinosurVars, dinosurVars, affiliateVars,
                   lastTick, referralUnclaimed, assetsHad, accrualIntervals>>

\* one callback of the i-th interval before its last one: the reels change,
\* spinTimer advances and stays below spinDuration; the intervals were
\* started one after the other and fire at the same rate, so that a later
\* one is never ahead of an earlier one
SpinTick(i) ==
    /\ i \in 1..Len(spinIntervals)
    /\ SpinTimerAfter(spinIntervals[i].spinTimer) < spinDuration
    /\ i > 1 => SpinTimerAfter(spinIntervals[i].spinTimer)
                    <= spinIntervals[i - 1].spinTimer
    /\ spinIntervals' = [spinIntervals EXCEPT
                            ![i].spinTimer = SpinTimerAfter(spinIntervals[i].spinTimer)]
    /\ UNCHANGED <<activeSection, modalMessage, stakingDoc, raffleDoc, stakedNFTs,
                   totalEarned, loadingNFTs, addSlot, ticketQuantity, totalCost,
                   ticketCount, loadingTickets, isSpinning, buyTickets, saleVars,
                   probe, eDinosurVars, dinosurVars, affiliateVars, lastTick,
                   referralUnclaimed, assetsHad, accrualIntervals>>

\* the last callback of the oldest interval: if (spinTimer >= spinDuration)
SpinLastCallback(spinResult, io) ==
    /\ spinIntervals # <<>>
    /\ SpinTimerAfter(Head(spinIntervals).spinTimer) >= spinDuration
    /\ SpinFinish(spinResult, io)

---------------------------------------------------------------------------
(* AffiliatePagesSection *)

AbsentAffiliateDoc == [exists |-> FALSE, referralCount |-> 0, referralEarnings |-> 0]

IdleClaimReferral ==
    [pc |-> "idle", attached |-> FALSE, referralCount |-> 0, referralEarnings |-> 0]

\* 75,000 $eDINOSUR per referral per day
earningRatePerReferralPerDay == 75000

\* onSnapshot(affiliateDocRef, ...); a missing document is initialised
AffiliateSnapshot(io) ==
    /\ activeSection = "affiliate-pages"
    /\ IF affiliateDoc.exists
       THEN /\ referralCount' = affiliateDoc.referralCount
            /\ referralEarnings' = affiliateDoc.referralEarnings
            /\ io = "ok"
            /\ UNCHANGED affiliateDoc
       ELSE /\ referralCount' = 0
            /\ referralEarnings' = 0
            /\ affiliateDoc' = IF io = "ok"
                               THEN [AbsentAffiliateDoc EXCEPT !.exists = TRUE]
                               ELSE affiliateDoc
    /\ loadingAffiliateData' = FALSE
    /\ UNCHANGED <<activeSection, modalMessage, stakingDoc, raffleDoc, stakedNFTs,
                   totalEarned, loadingNFTs, addSlot, ticketQuantity, totalCost,
                   ticketCount, loadingTickets, buyTickets, saleVars, probe,
                   eDinosurVars, dinosurVars, spinVars, lastTick, referralUnclaimed, assetsHad, accrualIntervals, claimFrames>>

\* the callbacks of setInterval(..., 1000) of one day, each adding
\* referralCount * 75000 / 86400 to the in-memory referral earnings
ReferralEarningsDay ==
    /\ activeSection = "affiliate-pages"
    /\ ~loadingAffiliateData
    /\ now < MaxDays
    /\ now' = now + 1
    /\ referralEarnings' =
         referralEarnings + referralCount * earningRatePerReferralPerDay
    /\ referralUnclaimed' =
         referralUnclaimed + referralCount * earningRatePerReferralPerDay
    /\ UNCHANGED <<activeSection, modalMessage, stakingDoc, raffleDoc, stakedNFTs,
                   totalEarned, loadingNFTs, addSlot, ticketQuantity, totalCost,
                   ticketCount, loadingTickets, buyTickets, saleViewVars, probe,
                   eDinosurVars, dinosurVars, spinVars, lastTick, assetsHad, accrualIntervals, affiliateDoc,
                   referralCount, loadingAffiliateData, claimFrames>>

\* simulateNewReferral, with the write of updateFirestoreAffiliateData
SimulateNewReferral(io) ==
    /\ activeSection = "affiliate-pages"
    /\ ~loadingAffiliateData
    /\ referralCount < MaxReferrals
    /\ referralCount' = referralCount + 1
    /\ IF io = "ok"
       THEN /\ affiliateDoc' = [exists |-> TRUE, referralCount |-> referralCount + 1,
                                referralEarnings |-> referralEarnings]
            /\ modalMessage' = "ReferralSimulated"
       ELSE /\ modalMessage' = "PersistenceFailure"
            /\ UNCHANGED affiliateDoc
    /\ UNCHANGED <<activeSection, stakingDoc, raffleDoc, stakedNFTs, totalEarned,
                   loadingNFTs, addSlot, ticketQuantity, totalCost, ticketCount,
                   loadingTickets, buyTickets, saleVars, probe, eDinosurVars,
                   dinosurVars, spinVars, lastTick, referralUnclaimed, assetsHad, accrualIntervals, referralEarnings, loadingAffiliateData,
                   claimFrames>>

\* the frame a new call of handleClaimReferralEarnings takes
FreeClaimFrame == CHOOSE i \in 1..MaxInFlight :
    /\ claimFrames[i].pc = "idle"
    /\ \A j \in 1..(i - 1) : claimFrames[j].pc # "idle"

\* the calls of handleClaimReferralEarnings in flight
ClaimsInFlight == {i \in 1..MaxInFlight : claimFrames[i].pc # "idle"}

\* handleClaimReferralEarnings up to its first await (getDoc); the model
\* lets at most maxInFlight calls be in flight
ClaimReferralClickWithin(maxInFlight) ==
    /\ activeSection = "affiliate-pages"
    /\ ~loadingAffiliateData
    /\ IF referralEarnings > 0
       THEN /\ Cardinality(ClaimsInFlight) < maxInFlight
            /\ modalMessage' = "ReferralClaimed"
            /\ claimFrames' = [claimFrames EXCEPT ![FreeClaimFrame] =
                                 [pc |-> "getDoc", attached |-> TRUE,
                                  referralCount |-> referralCount,
                                  referralEarnings |-> referralEarnings]]
       ELSE /\ modalMessage' = "NothingToClaim"
            /\ UNCHANGED claimFrames
    /\ UNCHANGED <<activeSection, stakingDoc, raffleDoc, stakedNFTs, totalEarned,
                   loadingNFTs, addSlot, ticketQuantity, totalCost, ticketCount,
                   loadingTickets, buyTickets, saleVars, probe, eDinosurVars,
                   dinosurVars, spinVars, lastTick, referralUnclaimed, assetsHad, accrualIntervals, affiliateDoc,
                   referralCount, referralEarnings, loadingAffiliateData>>

\* one call at a time
ClaimReferralClick == ClaimReferralClickWithin(1)

\* handleClaimReferralEarnings from the result of getDoc to the await of
\* updateDoc(userStakingDoc, {earned: currentEDinosur + referralEarnings})
ClaimReferralCredit(i, io) ==
    /\ claimFrames[i].pc = "getDoc"
    /\ LET currentEDinosur == IF stakingDoc.exists THEN stakingDoc.earned ELSE 0
       IN  IF io = "ok" /\ stakingDoc.exists
           THEN /\ stakingDoc' = [stakingDoc EXCEPT
                                    !.earned = currentEDinosur
                                               + claimFrames[i].referralEarnings]
                /\ claimFrames' = [claimFrames EXCEPT ![i].pc = "updateDoc"]
                /\ referralUnclaimed' =
                       referralUnclaimed - claimFrames[i].referralEarnings
                /\ UNCHANGED modalMessage
           ELSE /\ modalMessage' = "PersistenceFailure"
                /\ claimFrames' = [claimFrames EXCEPT ![i] = IdleClaimReferral]
                /\ UNCHANGED <<stakingDoc, referralUnclaimed>>
    /\ UNCHANGED <<activeSection, raffleDoc, stakedNFTs, totalEarned, loadingNFTs,
                   addSlot, ticketQuantity, totalCost, ticketCount, loadingTickets,
                   buyTickets, saleVars, probe, eDinosurVars, dinosurVars,
                   spinVars, lastTick, assetsHad, accrualIntervals, affiliateDoc, referralCount, referralEarnings,
                   loadingAffiliateData>>

\* handleClaimReferralEarnings from the end of updateDoc to its end:
\* setReferralEarnings(0) and updateFirestoreAffiliateData(referralCount, 0)
ClaimReferralReset(i, io) ==
    /\ claimFrames[i].pc = "updateDoc"
    /\ claimFrames' = [claimFrames EXCEPT ![i] = IdleClaimReferral]
    /\ referralEarnings' = IF claimFrames[i].attached THEN 0 ELSE referralEarnings
    /\ IF io = "ok"
       THEN /\ affiliateDoc' = [exists |-> TRUE,
                                referralCount |-> claimFrames[i].referralCount,
                                referralEarnings |-> 0]
            /\ UNCHANGED modalMessage
       ELSE /\ modalMessage' = "PersistenceFailure"
            /\ UNCHANGED affiliateDoc
    /\ UNCHANGED <<activeSection, stakingDoc, raffleDoc, stakedNFTs, totalEarned,
                   loadingNFTs, addSlot, ticketQuantity, totalCost, ticketCount,
                   loadingTickets, buyTickets, saleVars, probe, eDinosurVars,
                   dinosurVars, spinVars, lastTick, referralUnclaimed, assetsHad, accrualIntervals, referralCount,
                   loadingAffiliateData>>

---------------------------------------------------------------------------
(* EDinosurSection *)

\* onSnapshot(userStakingDocRef, ...); a missing document is initialised
EDinosurSnapshot(io) ==
    /\ activeSection = "edinosur"
    /\ IF stakingDoc.exists
       THEN /\ eDinosurBalance' = stakingDoc.earned
            /\ readyToBurnEDinosur' = stakingDoc.readyToBurnEDinosur
            /\ totalBurntEDinosur' = stakingDoc.totalBurntEDinosur
            /\ io = "ok"
            /\ UNCHANGED stakingDoc
       ELSE /\ eDinosurBalance' = 0
            /\ readyToBurnEDinosur' = 0
            /\ totalBurntEDinosur' = 0
            /\ stakingDoc' = IF io = "ok"
                             THEN [stakingDoc EXCEPT !.exists = TRUE,
                                                     !.earned = 0,
                                                     !.readyToBurnEDinosur = 0,
                                                     !.totalBurntEDinosur = 0]
                             ELSE stakingDoc
    /\ loadingEDinosur' = FALSE
    /\ UNCHANGED <<activeSection, modalMessage, raffleDoc, stakedNFTs, totalEarned,
                   loadingNFTs, addSlot, ticketQuantity, totalCost, ticketCount,
                   loadingTickets, buyTickets, saleVars, probe, dinosurVars,
                   spinVars, lastTick, referralUnclaimed, assetsHad, accrualIntervals, affiliateVars>>

\* handleClaimDinosur: the balance shown is claimed, the persisted one reset
HandleClaimDinosur(io) ==
    /\ activeSection = "edinosur"
    /\ ~loadingEDinosur
    /\ IF eDinosurBalance > 0
       THEN IF io = "ok" /\ stakingDoc.exists
            THEN /\ stakingDoc' = [stakingDoc EXCEPT !.earned = 0]
                 /\ modalMessage' = "Claimed"
            ELSE /\ modalMessage' = "PersistenceFailure"
                 /\ UNCHANGED stakingDoc
       ELSE /\ io = "ok"
            /\ modalMessage' = "NothingToClaim"
            /\ UNCHANGED stakingDoc
    /\ UNCHANGED <<activeSection, raffleDoc, stakedNFTs, totalEarned, loadingNFTs,
                   addSlot, ticketQuantity, totalCost, ticketCount, loadingTickets,
                   buyTickets, saleVars, ledgerVars>>

\* a burn that leaves the ready amount where it is
BurnUpdateKeepingReady(document, ready, total, newTotalBurnt) ==
    [document EXCEPT ![total] = newTotalBurnt]

\* updateDoc(ref, {<ready>: 0, <total>: newTotalBurnt}): one update of the
\* two fields of a burn ledger
BurnUpdate(document, ready, total, newTotalBurnt) ==
    [document EXCEPT ![ready] = 0, ![total] = newTotalBurnt]

\* handleBurnEDinosur: the amounts shown are burnt
HandleBurnEDinosur(io) ==
    /\ activeSection = "edinosur"
    /\ ~loadingEDinosur
    /\ IF readyToBurnEDinosur > 0
       THEN LET newTotalBurnt == totalBurntEDinosur + readyToBurnEDinosur
            IN  IF io = "ok" /\ stakingDoc.exists
                THEN /\ stakingDoc' = BurnUpdate(stakingDoc, "readyToBurnEDinosur",
                                                 "totalBurntEDinosur", newTotalBurnt)
                     /\ modalMessage' = "Burnt"
                ELSE /\ modalMessage' = "PersistenceFailure"
                     /\ UNCHANGED stakingDoc
       ELSE /\ io = "ok"
            /\ modalMessage' = "NothingToBurn"
            /\ UNCHANGED stakingDoc
    /\ UNCHANGED <<activeSection, raffleDoc, stakedNFTs, totalEarned, loadingNFTs,
                   addSlot, ticketQuantity, totalCost, ticketCount, loadingTickets,
                   buyTickets, saleVars, ledgerVars>>

---------------------------------------------------------------------------
(* DinosurCoinSection *)

AbsentBurnStatsDoc ==
    [exists |-> FALSE, readyToBurnDinosur |-> 0, totalBurntDinosur |-> 0]

\* onSnapshot(dinosurBurnStatsDocRef, ...); a missing document is initialised
DinosurSnapshot(io) ==
    /\ activeSection = "dinosur-coin"
    /\ IF burnStatsDoc.exists
       THEN /\ readyToBurnDinosur' = burnStatsDoc.readyToBurnDinosur
            /\ totalBurntDinosur' = burnStatsDoc.totalBurntDinosur
            /\ io = "ok"
            /\ UNCHANGED burnStatsDoc
       ELSE /\ readyToBurnDinosur' = 0
            /\ totalBurntDinosur' = 0
            /\ burnStatsDoc' = IF io = "ok"
                               THEN [AbsentBurnStatsDoc EXCEPT !.exists = TRUE]
                               ELSE burnStatsDoc
    /\ loadingBurnStats' = FALSE
    /\ UNCHANGED <<activeSection, modalMessage, stakingDoc, raffleDoc, stakedNFTs,
                   totalEarned, loadingNFTs, addSlot, ticketQuantity, totalCost,
                   ticketCount, loadingTickets, buyTickets, saleVars, probe,
                   eDinosurVars, alertMessage, spinVars, lastTick, referralUnclaimed, assetsHad, accrualIntervals, affiliateVars>>

\* a public burn that sweeps the holder's ready amount into the public total
HandleBurnDinosurWithHolderLedger(io) ==
    /\ activeSection = "dinosur-coin"
    /\ ~loadingBurnStats
    /\ readyToBurnDinosur > 0
    /\ io = "ok"
    /\ burnStatsDoc.exists
    /\ burnStatsDoc' = BurnUpdate(burnStatsDoc, "readyToBurnDinosur",
                                  "totalBurntDinosur",
                                  totalBurntDinosur + readyToBurnDinosur
                                  + stakingDoc.readyToBurnEDinosur)
    /\ stakingDoc' = [stakingDoc EXCEPT !.readyToBurnEDinosur = 0]
    /\ alertMessage' = "Burnt"
    /\ UNCHANGED <<activeSection, modalMessage, raffleDoc, stakedNFTs,
                   totalEarned, loadingNFTs, addSlot, ticketQuantity, totalCost,
                   ticketCount, loadingTickets, buyTickets, saleVars, probe,
                   eDinosurVars, readyToBurnDinosur, totalBurntDinosur,
                   loadingBurnStats, spinVars, lastTick, referralUnclaimed, assetsHad, accrualIntervals, affiliateVars>>

\* handleBurnDinosur: the amounts shown are burnt; the outcome is reported
\* with alert()
HandleBurnDinosur(io) ==
    /\ activeSection = "dinosur-coin"
    /\ ~loadingBurnStats
    /\ IF readyToBurnDinosur > 0
       THEN LET newTotalBurnt == totalBurntDinosur + readyToBurnDinosur
            IN  IF io = "ok" /\ burnStatsDoc.exists
                THEN /\ burnStatsDoc' = BurnUpdate(burnStatsDoc, "readyToBurnDinosur",
                                                   "totalBurntDinosur", newTotalBurnt)
                     /\ alertMessage' = "Burnt"
                ELSE /\ alertMessage' = "PersistenceFailure"
                     /\ UNCHANGED burnStatsDoc
       ELSE /\ io = "ok"
            /\ alertMessage' = "NothingToBurn"
            /\ UNCHANGED burnStatsDoc
    /\ UNCHANGED <<activeSection, modalMessage, stakingDoc, raffleDoc, stakedNFTs,
                   totalEarned, loadingNFTs, addSlot, ticketQuantity, totalCost,
                   ticketCount, loadingTickets, buyTickets, saleVars, probe,
                   eDinosurVars, readyToBurnDinosur, totalBurntDinosur,
                   loadingBurnStats, spinVars, lastTick, referralUnclaimed, assetsHad, accrualIntervals, affiliateVars>>

---------------------------------------------------------------------------
(* EDinosurSaleSection *)

UsdScale == 100 * 100
Usd(dollars) == dollars * UsdScale

\* initialPrice = 0.00005 $ per token, here per million tokens
initialPrice == Usd(50)

\* initialPrice * Math.pow(priceIncreaseFactor, e), priceIncreaseFactor = 1.10
PriceAt(e) == (initialPrice * Pow(11, e)) \div Pow(10, e)

\* an epoch index that counts from 1
EpochAtFromOne(t, start) == (t - start) \div epochDurationDays + 1

\* Math.floor(elapsedMs / epochMs)
EpochAt(t, start) == (t - start) \div epochDurationDays

\* getSaleStartDate(): now + 45 days
getSaleStartDate == now + SaleDelayDays

AbsentSaleDoc ==
    [exists |-> FALSE, totalPurchasedUSD |-> 0, userPurchasedUSDInCurrentEpoch |-> 0,
     lastPurchaseEpoch |-> -1]

IdleBuy ==
    [pc |-> "idle", attached |-> FALSE, committed |-> FALSE, amountToBuy |-> 0,
     costUSD |-> 0, newTotalPurchasedUSD |-> 0, newPurchasedUSDInCurrentEpoch |-> 0,
     currentEpoch |-> 0]

\* texts typed into the amount input; amounts are in millions of tokens
BuyAmounts == {"abc", "-1", "0", "3", "5", "6"}

\* parseFloat(buyAmount): a number, or NaN for text that does not begin
\* with one
parseFloat(text) ==
    CASE text = "-1" -> [nan |-> FALSE, value |-> -1]
      [] text = "0" -> [nan |-> FALSE, value |-> 0]
      [] text = "3" -> [nan |-> FALSE, value |-> 3]
      [] text = "5" -> [nan |-> FALSE, value |-> 5]
      [] text = "6" -> [nan |-> FALSE, value |-> 6]
      [] OTHER -> [nan |-> TRUE, value |-> 0]

\* the instants at which the model looks at the clock: the sale start, and
\* for every epoch its first instant and a later one inside it
ClockInstants(start) ==
    {start} \cup {start + e * epochDurationDays + 1 : e \in 0..MaxEpoch}
            \cup {start + e * epochDurationDays : e \in 1..MaxEpoch}

\* the epoch that contains t, for t at or after the sale start
WallEpoch(t) == IF t >= saleStartTime THEN EpochAt(t, saleStartTime) ELSE -1

\* time passes
AdvanceClock ==
    /\ saleStartTime # NullDate
    /\ \E t \in ClockInstants(saleStartTime) :
         /\ t > now
         /\ now' = t
    /\ paidInEpoch' = IF WallEpoch(now') = WallEpoch(now) THEN paidInEpoch ELSE 0
    /\ UNCHANGED <<activeSection, modalMessage, holderVars, saleStarts, saleIntervals, seenLive, lastReport, saleStartTime, saleStarted,
                   currentEpoch, currentPrice, userPurchasedUSD,
                   userPurchasedUSDInCurrentEpoch, lastPurchaseEpoch,
                   loadingPurchaseData, saleDoc, buyFrames>>

\* onSnapshot(userSalePurchaseDocRef, ...)
SaleSnapshot(io) ==
    /\ activeSection = "edinosur-sale"
    /\ IF saleDoc.exists
       THEN /\ userPurchasedUSD' = saleDoc.totalPurchasedUSD
            /\ userPurchasedUSDInCurrentEpoch' = saleDoc.userPurchasedUSDInCurrentEpoch
            /\ lastPurchaseEpoch' = saleDoc.lastPurchaseEpoch
            /\ io = "ok"
            /\ UNCHANGED saleDoc
       ELSE /\ userPurchasedUSD' = 0
            /\ userPurchasedUSDInCurrentEpoch' = 0
            /\ lastPurchaseEpoch' = -1
            /\ saleDoc' = IF io = "ok" THEN [AbsentSaleDoc EXCEPT !.exists = TRUE]
                          ELSE saleDoc
    /\ loadingPurchaseData' = FALSE
    /\ saleIntervals' = IntervalsAfterEffect(saleIntervals, TRUE)
    /\ UNCHANGED <<activeSection, modalMessage, holderVars, saleStarts, seenLive, lastReport, now, saleStartTime,
                   saleStarted, currentEpoch, currentPrice, buyFrames, paidInEpoch>>

\* a tick whose epoch reset also clears the lifetime amount
SaleTickResettingTotal(io) ==
    /\ activeSection = "edinosur-sale"
    /\ LET distance == saleStartTime - now
           currentEpochNum == EpochAt(now, saleStartTime)
       IN  IF distance < 0
           THEN /\ saleStarted' = TRUE
                /\ seenLive' = TRUE
                /\ lastReport' = "Live"
                /\ currentEpoch' = currentEpochNum
                /\ currentPrice' = PriceAt(currentEpochNum)
                /\ IF currentEpochNum # lastPurchaseEpoch
                   THEN /\ userPurchasedUSDInCurrentEpoch' = 0
                        /\ userPurchasedUSD' = 0
                        /\ saleDoc' =
                             IF io = "ok" /\ saleDoc.exists
                             THEN [saleDoc EXCEPT
                                     !.userPurchasedUSDInCurrentEpoch = 0,
                                     !.lastPurchaseEpoch = currentEpochNum]
                             ELSE saleDoc
                   ELSE /\ io = "ok"
                        /\ UNCHANGED <<userPurchasedUSDInCurrentEpoch, saleDoc,
                                       userPurchasedUSD>>
           ELSE /\ saleStarted' = FALSE
                /\ io = "ok"
                /\ lastReport' = "Pending"
                /\ UNCHANGED seenLive
                /\ UNCHANGED <<currentEpoch, currentPrice, userPurchasedUSD,
                               userPurchasedUSDInCurrentEpoch, saleDoc>>
    /\ saleIntervals' = IntervalsAfterEffect(saleIntervals, TRUE)
    /\ UNCHANGED <<activeSection, modalMessage, holderVars, saleStarts, now, saleStartTime,
                   lastPurchaseEpoch, loadingPurchaseData,
                   buyFrames, paidInEpoch>>

\* the callback of setInterval(..., 1000): countdown and epoch calculation
SaleTick(io) ==
    /\ activeSection = "edinosur-sale"
    /\ LET distance == saleStartTime - now
           currentEpochNum == EpochAt(now, saleStartTime)
       IN  IF distance < 0
           THEN /\ saleStarted' = TRUE
                /\ seenLive' = TRUE
                /\ lastReport' = "Live"
                /\ currentEpoch' = currentEpochNum
                /\ currentPrice' = PriceAt(currentEpochNum)
                /\ IF currentEpochNum # lastPurchaseEpoch
                   THEN /\ userPurchasedUSDInCurrentEpoch' = 0
                        /\ saleDoc' =
                             IF io = "ok" /\ saleDoc.exists
                             THEN [saleDoc EXCEPT
                                     !.userPurchasedUSDInCurrentEpoch = 0,
                                     !.lastPurchaseEpoch = currentEpochNum]
                             ELSE saleDoc
                   ELSE /\ io = "ok"
                        /\ UNCHANGED <<userPurchasedUSDInCurrentEpoch, saleDoc>>
           ELSE /\ saleStarted' = FALSE
                /\ io = "ok"
                /\ lastReport' = "Pending"
                /\ UNCHANGED seenLive
                /\ UNCHANGED <<currentEpoch, currentPrice,
                               userPurchasedUSDInCurrentEpoch, saleDoc>>
    /\ saleIntervals' = IntervalsAfterEffect(saleIntervals, TRUE)
    /\ UNCHANGED <<activeSection, modalMessage, holderVars, saleStarts, now, saleStartTime,
                   userPurchasedUSD, lastPurchaseEpoch, loadingPurchaseData,
                   buyFrames, paidInEpoch>>

\* the checks of handleBuy without the one of the epoch cap
BuyCheckWithoutEpochCap(buyAmount) ==
    LET amountToBuy == parseFloat(buyAmount)
        costUSD == amountToBuy.value * currentPrice
    IN  IF ~saleStarted THEN "SaleNotLive"
        ELSE IF amountToBuy.nan \/ amountToBuy.value <= 0 THEN "InvalidAmount"
        ELSE IF userPurchasedUSD + costUSD > Usd(MAX_WALLET_PURCHASE_USD)
             THEN "WalletCapExceeded"
        ELSE "Simulating"

\* the checks of handleBuy with the epoch cap tested before the wallet cap
BuyCheckEpochCapFirst(buyAmount) ==
    LET amountToBuy == parseFloat(buyAmount)
        costUSD == amountToBuy.value * currentPrice
    IN  IF ~saleStarted THEN "SaleNotLive"
        ELSE IF amountToBuy.nan \/ amountToBuy.value <= 0 THEN "InvalidAmount"
        ELSE IF userPurchasedUSDInCurrentEpoch + costUSD > Usd(MAX_EPOCH_PURCHASE_USD)
             THEN "EpochCapExceeded"
        ELSE IF userPurchasedUSD + costUSD > Usd(MAX_WALLET_PURCHASE_USD)
             THEN "WalletCapExceeded"
        ELSE "Simulating"

\* what handleBuy answers before it writes: the first check that fails
BuyCheck(buyAmount) ==
    LET amountToBuy == parseFloat(buyAmount)
        costUSD == amountToBuy.value * currentPrice
    IN  IF ~saleStarted THEN "SaleNotLive"
        ELSE IF amountToBuy.nan \/ amountToBuy.value <= 0 THEN "InvalidAmount"
        ELSE IF userPurchasedUSD + costUSD > Usd(MAX_WALLET_PURCHASE_USD)
             THEN "WalletCapExceeded"
        ELSE IF userPurchasedUSDInCurrentEpoch + costUSD > Usd(MAX_EPOCH_PURCHASE_USD)
             THEN "EpochCapExceeded"
        ELSE "Simulating"

\* a purchase record whose epoch amount is not raised
PurchaseRecordWithoutEpochAmount(costUSD) ==
    [totalPurchasedUSD |-> userPurchasedUSD + costUSD,
     userPurchasedUSDInCurrentEpoch |-> userPurchasedUSDInCurrentEpoch,
     lastPurchaseEpoch |-> currentEpoch]

\* the fields handleBuy hands to updateDoc, and to the state setters once
\* the write is acknowledged
PurchaseRecord(costUSD) ==
    [totalPurchasedUSD |-> userPurchasedUSD + costUSD,
     userPurchasedUSDInCurrentEpoch |-> userPurchasedUSDInCurrentEpoch + costUSD,
     lastPurchaseEpoch |-> currentEpoch]

FreeFrame == CHOOSE i \in 1..MaxInFlight :
    /\ buyFrames[i].pc = "idle"
    /\ \A j \in 1..(i - 1) : buyFrames[j].pc # "idle"

\* handleBuy up to its await of updateDoc
HandleBuy(buyAmount, io) ==
    /\ activeSection = "edinosur-sale"
    /\ ~loadingPurchaseData
    /\ \E i \in 1..MaxInFlight : buyFrames[i].pc = "idle"
    /\ modalMessage' = BuyCheck(buyAmount)
    /\ IF BuyCheck(buyAmount) = "Simulating"
       THEN LET amountToBuy == parseFloat(buyAmount).value
                costUSD == amountToBuy * currentPrice
                newTotalPurchasedUSD == PurchaseRecord(costUSD).totalPurchasedUSD
                newPurchasedUSDInCurrentEpoch ==
                    PurchaseRecord(costUSD).userPurchasedUSDInCurrentEpoch
                committed == io = "ok" /\ saleDoc.exists
            IN  /\ saleDoc' =
                     IF committed
                     THEN [saleDoc EXCEPT
                             !.totalPurchasedUSD = newTotalPurchasedUSD,
                             !.userPurchasedUSDInCurrentEpoch = newPurchasedUSDInCurrentEpoch,
                             !.lastPurchaseEpoch = PurchaseRecord(costUSD).lastPurchaseEpoch]
                     ELSE saleDoc
                /\ buyFrames' = [buyFrames EXCEPT ![FreeFrame] =
                     [pc |-> "updateDoc", attached |-> TRUE, committed |-> committed,
                      amountToBuy |-> amountToBuy, costUSD |-> costUSD,
                      newTotalPurchasedUSD |-> newTotalPurchasedUSD,
                      newPurchasedUSDInCurrentEpoch |-> newPurchasedUSDInCurrentEpoch,
                      currentEpoch |-> PurchaseRecord(costUSD).lastPurchaseEpoch]]
                /\ paidInEpoch' = IF committed THEN paidInEpoch + costUSD ELSE paidInEpoch
       ELSE /\ io = "ok"
            /\ UNCHANGED <<saleDoc, buyFrames, paidInEpoch>>
    /\ saleIntervals' = IF modalMessage' # modalMessage
                        THEN IntervalsAfterEffect(saleIntervals, TRUE)
                        ELSE saleIntervals
    /\ UNCHANGED <<activeSection, holderVars, saleStarts, seenLive, lastReport, now, saleStartTime, saleStarted,
                   currentEpoch, currentPrice, userPurchasedUSD,
                   userPurchasedUSDInCurrentEpoch, lastPurchaseEpoch,
                   loadingPurchaseData>>

\* handleBuy after its await of updateDoc: the write was acknowledged or
\* rejected
HandleBuyResume(i) ==
    /\ buyFrames[i].pc = "updateDoc"
    /\ buyFrames' = [buyFrames EXCEPT ![i] = IdleBuy]
    /\ IF buyFrames[i].committed
       THEN /\ modalMessage' = "Success"
            /\ IF buyFrames[i].attached
               THEN /\ userPurchasedUSD' = buyFrames[i].newTotalPurchasedUSD
                    /\ userPurchasedUSDInCurrentEpoch' =
                           buyFrames[i].newPurchasedUSDInCurrentEpoch
                    /\ lastPurchaseEpoch' = buyFrames[i].currentEpoch
               ELSE UNCHANGED <<userPurchasedUSD, userPurchasedUSDInCurrentEpoch,
                                lastPurchaseEpoch>>
       ELSE /\ modalMessage' = "PersistenceFailure"
            /\ UNCHANGED <<userPurchasedUSD, userPurchasedUSDInCurrentEpoch,
                           lastPurchaseEpoch>>
    /\ saleIntervals' = IF activeSection = "edinosur-sale"
                        THEN IntervalsAfterEffect(saleIntervals, TRUE)
                        ELSE saleIntervals
    /\ UNCHANGED <<activeSection, holderVars, saleStarts, seenLive, lastReport, now, saleStartTime, saleStarted,
                   currentEpoch, currentPrice, loadingPurchaseData, saleDoc,
                   paidInEpoch>>

---------------------------------------------------------------------------
(* App *)

HolderSections == {"nft-staking", "raffle-slot"}

\* NavItem onClick: setActiveSection(section).  The section that was shown
\* is unmounted and its state discarded, the new one starts from its
\* useState defaults; a handler in flight keeps running, its set-state
\* calls no longer reach a mounted component.  The cleanups of the effects
\* of the section that is left run; the countdown effect of the sale view
\* sets its interval at the mount, the accrual effect of the staking view
\* returns before setInterval while loadingNFTs holds.
Navigate(section) ==
    /\ section # activeSection
    /\ section = "edinosur-sale" => Len(saleStarts) < MaxMounts
    /\ activeSection' = section
    /\ stakedNFTs' = <<>>
    /\ totalEarned' = 0
    /\ loadingNFTs' = TRUE
    /\ addSlot' = [addSlot EXCEPT !.attached = FALSE,
                                  !.behind = [i \in 1..Len(addSlot.behind) |-> FALSE]]
    /\ ticketQuantity' = 1
    /\ totalCost' = EDINOSUR_TICKET_COST
    /\ ticketCount' = 0
    /\ loadingTickets' = TRUE
    /\ buyTickets' = [buyTickets EXCEPT !.attached = FALSE]
    /\ saleStartTime' = IF section = "edinosur-sale" THEN getSaleStartDate ELSE NullDate
    /\ saleStarted' = FALSE
    /\ currentEpoch' = 0
    /\ currentPrice' = initialPrice
    /\ userPurchasedUSD' = 0
    /\ userPurchasedUSDInCurrentEpoch' = 0
    /\ lastPurchaseEpoch' = -1
    /\ loadingPurchaseData' = TRUE
    /\ buyFrames' = [i \in 1..MaxInFlight |-> [buyFrames[i] EXCEPT !.attached = FALSE]]
    /\ eDinosurBalance' = 0
    /\ readyToBurnEDinosur' = 0
    /\ totalBurntEDinosur' = 0
    /\ loadingEDinosur' = TRUE
    /\ readyToBurnDinosur' = 0
    /\ totalBurntDinosur' = 0
    /\ loadingBurnStats' = TRUE
    /\ lastTick' = 0
    /\ isSpinning' = FALSE
    /\ spinIntervals' = [i \in 1..Len(spinIntervals) |->
                            [spinIntervals[i] EXCEPT !.attached = FALSE]]
    /\ referralCount' = 0
    /\ referralEarnings' = 0
    /\ loadingAffiliateData' = TRUE
    /\ claimFrames' = [i \in 1..MaxInFlight |->
                          [claimFrames[i] EXCEPT !.attached = FALSE]]
    /\ saleStarts' = IF section = "edinosur-sale"
                     THEN Append(saleStarts, getSaleStartDate)
                     ELSE saleStarts
    /\ accrualIntervals' = IF activeSection = "nft-staking"
                           THEN IntervalsAfterCleanup(accrualIntervals)
                           ELSE accrualIntervals
    /\ saleIntervals' = IF activeSection = "edinosur-sale"
                        THEN IntervalsAfterCleanup(saleIntervals)
                        ELSE IF section = "edinosur-sale"
                        THEN saleIntervals + 1
                        ELSE saleIntervals
    /\ UNCHANGED <<modalMessage, stakingDoc, raffleDoc, now, saleDoc, paidInEpoch,
                   seenLive, lastReport, probe, burnStatsDoc, alertMessage,
                   affiliateDoc, referralUnclaimed, assetsHad>>

---------------------------------------------------------------------------
(* The holder's session: staking and raffle views *)

NewSlots(n) == [i \in 1..n |-> NewSlot(i)]

Init ==
    /\ activeSection = "introduction"
    /\ modalMessage = "none"
    /\ \/ stakingDoc = AbsentStakingDoc
       \/ \E b \in InitBalances, n \in InitSlotCounts :
            stakingDoc = [exists |-> TRUE, nfts |-> NewSlots(n), earned |-> b,
                          readyToBurnEDinosur |-> 0, totalBurntEDinosur |-> 0]
    /\ raffleDoc = AbsentRaffleDoc
    /\ stakedNFTs = <<>>
    /\ totalEarned = 0
    /\ loadingNFTs = TRUE
    /\ addSlot = IdleAddSlot
    /\ ticketQuantity = 1
    /\ totalCost = EDINOSUR_TICKET_COST
    /\ ticketCount = 0
    /\ loadingTickets = TRUE
    /\ buyTickets = IdleBuyTickets
    /\ now = 0
    /\ saleStartTime = NullDate
    /\ saleStarted = FALSE
    /\ currentEpoch = 0
    /\ currentPrice = initialPrice
    /\ userPurchasedUSD = 0
    /\ userPurchasedUSDInCurrentEpoch = 0
    /\ lastPurchaseEpoch = -1
    /\ loadingPurchaseData = TRUE
    /\ saleDoc = AbsentSaleDoc
    /\ buyFrames = [i \in 1..MaxInFlight |-> IdleBuy]
    /\ paidInEpoch = 0
    /\ saleStarts = <<>>
    /\ seenLive = FALSE
    /\ lastReport = "none"
    /\ probe = NoProbe
    /\ lastTick = 0
    /\ referralUnclaimed = 0
    /\ assetsHad = {}
    /\ accrualIntervals = 0
    /\ saleIntervals = 0
    /\ eDinosurBalance = 0
    /\ readyToBurnEDinosur = 0
    /\ totalBurntEDinosur = 0
    /\ loadingEDinosur = TRUE
    /\ burnStatsDoc = AbsentBurnStatsDoc
    /\ readyToBurnDinosur = 0
    /\ totalBurntDinosur = 0
    /\ loadingBurnStats = TRUE
    /\ alertMessage = "none"
    /\ isSpinning = FALSE
    /\ spinIntervals = <<>>
    /\ affiliateDoc = AbsentAffiliateDoc
    /\ referralCount = 0
    /\ referralEarnings = 0
    /\ loadingAffiliateData = TRUE
    /\ claimFrames = [i \in 1..MaxInFlight |-> IdleClaimReferral]

IoOutcomes == {"ok", "readFails", "writeFails"}
WriteOutcomes == {"ok", "writeFails"}

Next ==
    \/ \E section \in HolderSections : Navigate(section)
    \/ StakingSnapshot
    \/ AddSlotClick
    \/ \E io \in IoOutcomes : AddSlotResume(io)
    \/ RaffleSnapshot
    \/ \E q \in 1..MaxQuantity : SetTicketQuantity(q)
    \/ BuyTicketsClick
    \/ \E io \in IoOutcomes : BuyTicketsRead(io)
    \/ \E io \in WriteOutcomes : BuyTicketsDebit(io)

Spec == Init /\ [][Next]_vars

---------------------------------------------------------------------------
(* Sessions over the views that read or write the reward balance, the burn
   ledgers and the tickets *)

\* the App as it is constructed: no section of the holder is mounted, no
\* handler runs; the persisted documents are what earlier sessions left
Constructed ==
    /\ activeSection = "introduction"
    /\ modalMessage = "none"
    /\ stakedNFTs = <<>>
    /\ totalEarned = 0
    /\ loadingNFTs = TRUE
    /\ addSlot = IdleAddSlot
    /\ ticketQuantity = 1
    /\ totalCost = EDINOSUR_TICKET_COST
    /\ ticketCount = 0
    /\ loadingTickets = TRUE
    /\ buyTickets = IdleBuyTickets
    /\ now = 0
    /\ saleStartTime = NullDate
    /\ saleStarted = FALSE
    /\ currentEpoch = 0
    /\ currentPrice = initialPrice
    /\ userPurchasedUSD = 0
    /\ userPurchasedUSDInCurrentEpoch = 0
    /\ lastPurchaseEpoch = -1
    /\ loadingPurchaseData = TRUE
    /\ buyFrames = [i \in 1..MaxInFlight |-> IdleBuy]
    /\ paidInEpoch = 0
    /\ saleStarts = <<>>
    /\ seenLive = FALSE
    /\ lastReport = "none"
    /\ probe = NoProbe
    /\ lastTick = 0
    /\ referralUnclaimed = 0
    /\ assetsHad = {}
    /\ accrualIntervals = 0
    /\ saleIntervals = 0
    /\ eDinosurBalance = 0
    /\ readyToBurnEDinosur = 0
    /\ totalBurntEDinosur = 0
    /\ loadingEDinosur = TRUE
    /\ readyToBurnDinosur = 0
    /\ totalBurntDinosur = 0
    /\ loadingBurnStats = TRUE
    /\ alertMessage = "none"
    /\ isSpinning = FALSE
    /\ spinIntervals = <<>>
    /\ referralCount = 0
    /\ referralEarnings = 0
    /\ loadingAffiliateData = TRUE
    /\ claimFrames = [i \in 1..MaxInFlight |-> IdleClaimReferral]

\* the holder's document of an earlier session, with a balance for n slots
\* of the base price and one ticket
PriorStakingDoc(n) ==
    [exists |-> TRUE, nfts |-> <<>>,
     earned |-> n * BASE_ADD_SLOT_EDINOSUR_COST + EDINOSUR_TICKET_COST,
     readyToBurnEDinosur |-> 0, totalBurntEDinosur |-> 0]

\* the tickets of an earlier session: one more can be bought
PriorRaffleDoc == [exists |-> TRUE, tickets |-> MaxTickets - 1]

\* the public burn document, as the other writers of the project left it
PriorBurnStatsDocs ==
    {[exists |-> TRUE, readyToBurnDinosur |-> 1000000, totalBurntDinosur |-> 0]}

(* The burn ledgers: the staking view as the source of burn amounts, the
   $eDINOSUR view and the $DINOSUR view *)

BurnSections == {"nft-staking", "edinosur", "dinosur-coin"}

BurnInit ==
    /\ Constructed
    /\ stakingDoc \in {AbsentStakingDoc, PriorStakingDoc(2)}
    /\ raffleDoc = AbsentRaffleDoc
    /\ saleDoc = AbsentSaleDoc
    /\ burnStatsDoc \in {AbsentBurnStatsDoc} \cup PriorBurnStatsDocs
    /\ affiliateDoc = AbsentAffiliateDoc

BurnNext ==
    \/ \E section \in BurnSections : Navigate(section)
    \/ StakingSnapshot
    \/ AddSlotClick
    \/ \E io \in IoOutcomes : AddSlotResume(io)
    \/ \E io \in WriteOutcomes : EDinosurSnapshot(io)
    \/ \E io \in WriteOutcomes : HandleClaimDinosur(io)
    \/ \E io \in WriteOutcomes : HandleBurnEDinosur(io)
    \/ \E io \in WriteOutcomes : DinosurSnapshot(io)
    \/ \E io \in WriteOutcomes : HandleBurnDinosur(io)

BurnSpec == BurnInit /\ [][BurnNext]_vars

(* The same with the raffle view as a second source of burn amounts *)

LedgerSections == BurnSections \cup {"raffle-slot"}

LedgerInit ==
    /\ Constructed
    /\ stakingDoc = PriorStakingDoc(1)
    /\ raffleDoc = PriorRaffleDoc
    /\ saleDoc = AbsentSaleDoc
    /\ burnStatsDoc \in PriorBurnStatsDocs
    /\ affiliateDoc = AbsentAffiliateDoc

LedgerNext ==
    \/ \E section \in LedgerSections : Navigate(section)
    \/ StakingSnapshot
    \/ AddSlotClick
    \/ \E io \in IoOutcomes : AddSlotResume(io)
    \/ RaffleSnapshot
    \/ BuyTicketsClick
    \/ \E io \in IoOutcomes : BuyTicketsRead(io)
    \/ \E io \in WriteOutcomes : BuyTicketsDebit(io)
    \/ \E io \in WriteOutcomes : EDinosurSnapshot(io)
    \/ \E io \in WriteOutcomes : HandleBurnEDinosur(io)
    \/ \E io \in WriteOutcomes : DinosurSnapshot(io)
    \/ \E io \in WriteOutcomes : HandleBurnDinosur(io)

LedgerSpec == LedgerInit /\ [][LedgerNext]_vars

(* The holder's account: every operation on the reward balance, the burn
   ledger and the tickets, in a session that goes through the views in the
   order staking, raffle, $eDINOSUR, affiliate *)

AccountSections == {"nft-staking", "raffle-slot", "edinosur", "affiliate-pages"}

SectionRank(section) ==
    CASE section = "nft-staking" -> 1
      [] section = "raffle-slot" -> 2
      [] section = "edinosur" -> 3
      [] section = "affiliate-pages" -> 4
      [] OTHER -> 0

NavigateOnward(section) ==
    /\ SectionRank(section) > SectionRank(activeSection)
    /\ Navigate(section)

AccountInit ==
    /\ Constructed
    /\ stakingDoc = PriorStakingDoc(1)
    /\ raffleDoc = PriorRaffleDoc
    /\ saleDoc = AbsentSaleDoc
    /\ burnStatsDoc = AbsentBurnStatsDoc
    /\ affiliateDoc = AbsentAffiliateDoc

AccountNext ==
    \/ \E section \in AccountSections : NavigateOnward(section)
    \/ StakingSnapshot
    \/ \E id \in 1..MaxAssets : HandleStakeNFT(id)
    \/ \E id \in 1..MaxAssets : HandleUnstakeNFT(id)
    \/ HandleClaimReward
    \/ AccrualDay
    \/ AddSlotClick
    \/ \E io \in IoOutcomes : AddSlotResume(io)
    \/ RaffleSnapshot
    \/ BuyTicketsClick
    \/ \E io \in IoOutcomes : BuyTicketsRead(io)
    \/ \E io \in WriteOutcomes : BuyTicketsDebit(io)
    \/ HandleSpin
    \/ \E spinResult \in SpinDraws, io \in WriteOutcomes : SpinFinish(spinResult, io)
    \/ \E io \in WriteOutcomes : EDinosurSnapshot(io)
    \/ \E io \in WriteOutcomes : HandleClaimDinosur(io)
    \/ \E io \in WriteOutcomes : HandleBurnEDinosur(io)
    \/ \E io \in WriteOutcomes : AffiliateSnapshot(io)
    \/ ReferralEarningsDay
    \/ \E io \in WriteOutcomes : SimulateNewReferral(io)
    \/ ClaimReferralClick
    \/ \E i \in 1..MaxInFlight, io \in IoOutcomes : ClaimReferralCredit(i, io)
    \/ \E i \in 1..MaxInFlight, io \in WriteOutcomes : ClaimReferralReset(i, io)

AccountSpec == AccountInit /\ [][AccountNext]_vars

(* The raffle view, left and re-entered at will: ticket purchases and spins
   over the tickets of an earlier session, with a persistence service that
   commits every write *)

RaffleSections == {"introduction", "raffle-slot"}

RaffleInit ==
    /\ Constructed
    /\ stakingDoc = PriorStakingDoc(0)
    /\ raffleDoc \in {AbsentRaffleDoc, PriorRaffleDoc}
    /\ saleDoc = AbsentSaleDoc
    /\ burnStatsDoc = AbsentBurnStatsDoc
    /\ affiliateDoc = AbsentAffiliateDoc

RaffleNext ==
    \/ \E section \in RaffleSections : Navigate(section)
    \/ RaffleSnapshot
    \/ \E q \in 1..MaxQuantity : SetTicketQuantity(q)
    \/ BuyTicketsClick
    \/ BuyTicketsRead("ok")
    \/ BuyTicketsDebit("ok")
    \/ HandleSpin
    \/ \E spinResult \in SpinDraws : SpinFinish(spinResult, "ok")

RaffleSpec == RaffleInit /\ [][RaffleNext]_vars

(* The raffle view with the timer of the spin seen callback by callback, left
   and re-entered at will; setInterval fires the callback of a running
   interval again and again until clearInterval, whether or not the view that
   started it is still mounted *)

SpinInit ==
    /\ Constructed
    /\ stakingDoc = PriorStakingDoc(0)
    /\ raffleDoc = PriorRaffleDoc
    /\ saleDoc = AbsentSaleDoc
    /\ burnStatsDoc = AbsentBurnStatsDoc
    /\ affiliateDoc = AbsentAffiliateDoc

\* a callback of the oldest interval
SpinTimerFires ==
    \/ SpinTick(1)
    \/ \E spinResult \in SpinDraws : SpinLastCallback(spinResult, "ok")

SpinNext ==
    \/ \E section \in RaffleSections : Navigate(section)
    \/ RaffleSnapshot
    \/ HandleSpin
    \/ \E i \in 1..MaxInFlight : SpinTick(i)
    \/ \E spinResult \in SpinDraws : SpinLastCallback(spinResult, "ok")

SpinSpec == SpinInit /\ [][SpinNext]_vars /\ WF_vars(SpinTimerFires)

(* The staking view of a new wallet, left and re-entered at will: the seed
   NFTs are staked and unstaked, reward accrues with the days, is claimed
   and is offered for a slot *)

StakingSections == {"introduction", "nft-staking"}

StakingInit ==
    /\ Constructed
    /\ stakingDoc = AbsentStakingDoc
    /\ raffleDoc = AbsentRaffleDoc
    /\ saleDoc = AbsentSaleDoc
    /\ burnStatsDoc = AbsentBurnStatsDoc
    /\ affiliateDoc = AbsentAffiliateDoc

StakingNext ==
    \/ \E section \in StakingSections : Navigate(section)
    \/ StakingSnapshot
    \/ \E id \in 1..MaxAssets : HandleStakeNFT(id)
    \/ \E id \in 1..MaxAssets : HandleUnstakeNFT(id)
    \/ HandleClaimReward
    \/ AccrualDayUntil(MaxStakingDays)
    \/ IntervalSuspendedDay(MaxStakingDays)
    \/ AddSlotClick
    \/ \E io \in IoOutcomes : AddSlotResume(io)

StakingSpec == StakingInit /\ [][StakingNext]_vars

(* The staking view and the sale view of a new wallet, left and re-entered
   at will: snapshots arrive, NFTs are staked and unstaked, the intervals of
   the accrual effect and of the countdown effect fire *)

TimerSections == {"introduction", "nft-staking", "edinosur-sale"}

MaxTimerDays == 2

TimerNext ==
    \/ \E section \in TimerSections : Navigate(section)
    \/ StakingSnapshot
    \/ \E id \in 1..MaxAssets : HandleStakeNFT(id)
    \/ \E id \in 1..MaxAssets : HandleUnstakeNFT(id)
    \/ AccrualDayUntil(MaxTimerDays)
    \/ SaleSnapshot("ok")
    \/ SaleTick("ok")

TimerSpec == StakingInit /\ [][TimerNext]_vars

(* The affiliate view of a holder with a staking document, left and
   re-entered at will: a referral joins, referral earnings accrue with the
   day and are claimed; every read and write succeeds *)

AffiliateSections == {"introduction", "affiliate-pages"}

AffiliateInit ==
    /\ Constructed
    /\ stakingDoc = PriorStakingDoc(0)
    /\ raffleDoc = AbsentRaffleDoc
    /\ saleDoc = AbsentSaleDoc
    /\ burnStatsDoc = AbsentBurnStatsDoc
    /\ affiliateDoc = AbsentAffiliateDoc

AffiliateNext ==
    \/ \E section \in AffiliateSections : Navigate(section)
    \/ AffiliateSnapshot("ok")
    \/ ReferralEarningsDay
    \/ SimulateNewReferral("ok")
    \/ ClaimReferralClickWithin(MaxInFlight)
    \/ \E i \in 1..MaxInFlight : ClaimReferralCredit(i, "ok")
    \/ \E i \in 1..MaxInFlight : ClaimReferralReset(i, "ok")

AffiliateSpec == AffiliateInit /\ [][AffiliateNext]_vars

(* The assets of a holder: the staking view and the $eDINOSUR view, left
   and re-entered at will, by a new wallet or over the document of an earlier
   session; slots are bought, also by calls that overlap *)

AssetsSections == {"introduction", "nft-staking", "edinosur"}

AssetsInit ==
    /\ Constructed
    /\ stakingDoc \in {AbsentStakingDoc, PriorStakingDoc(2)}
    /\ raffleDoc = AbsentRaffleDoc
    /\ saleDoc = AbsentSaleDoc
    /\ burnStatsDoc = AbsentBurnStatsDoc
    /\ affiliateDoc = AbsentAffiliateDoc

AssetsNext ==
    \/ \E section \in AssetsSections : Navigate(section)
    \/ StakingSnapshot
    \/ \E id \in 1..MaxAssets : HandleStakeNFT(id)
    \/ \E id \in 1..MaxAssets : HandleUnstakeNFT(id)
    \/ HandleClaimReward
    \/ AddSlotClick
    \/ AddSlotClickAgain
    \/ \E io \in IoOutcomes : AddSlotResume(io)
    \/ \E io \in WriteOutcomes : EDinosurSnapshot(io)

AssetsSpec == AssetsInit /\ [][AssetsNext]_vars

---------------------------------------------------------------------------
(* The session without an identifier: onAuthStateChanged has delivered no
   user, userId is null and every document reference built from it is null *)

\* the effect that would subscribe to the document of the view on screen:
\* without userId it ends the loading state and returns; the accrual effect
\* of the staking view runs again and returns before setInterval; the
\* dependencies of the countdown effect of the sale view do not change
MountNoUser ==
    /\ activeSection \in {"nft-staking", "edinosur", "edinosur-sale",
                          "raffle-slot", "affiliate-pages"}
    /\ \/ activeSection = "nft-staking" /\ loadingNFTs
       \/ activeSection = "edinosur" /\ loadingEDinosur
       \/ activeSection = "edinosur-sale" /\ loadingPurchaseData
       \/ activeSection = "raffle-slot" /\ loadingTickets
       \/ activeSection = "affiliate-pages" /\ loadingAffiliateData
    /\ loadingNFTs' = IF activeSection = "nft-staking" THEN FALSE ELSE loadingNFTs
    /\ accrualIntervals' = IF activeSection = "nft-staking"
                           THEN IntervalsAfterEffect(accrualIntervals, FALSE)
                           ELSE accrualIntervals
    /\ loadingEDinosur' =
         IF activeSection = "edinosur" THEN FALSE ELSE loadingEDinosur
    /\ loadingPurchaseData' =
         IF activeSection = "edinosur-sale" THEN FALSE ELSE loadingPurchaseData
    /\ loadingTickets' =
         IF activeSection = "raffle-slot" THEN FALSE ELSE loadingTickets
    /\ loadingAffiliateData' =
         IF activeSection = "affiliate-pages" THEN FALSE ELSE loadingAffiliateData
    /\ UNCHANGED <<activeSection, modalMessage, stakingDoc, raffleDoc, stakedNFTs,
                   totalEarned, addSlot, ticketQuantity, totalCost, ticketCount,
                   buyTickets, now, saleStartTime, saleStarted, currentEpoch,
                   currentPrice, userPurchasedUSD, userPurchasedUSDInCurrentEpoch,
                   lastPurchaseEpoch, saleDoc, buyFrames, paidInEpoch, saleStarts,
                   saleIntervals,
                   seenLive, lastReport, probe, eDinosurBalance,
                   readyToBurnEDinosur, totalBurntEDinosur, dinosurVars, spinVars,
                   lastTick, referralUnclaimed, assetsHad, affiliateDoc, referralCount,
                   referralEarnings, claimFrames>>

\* handleAddSlot without userId: "Please connect your wallet to add a slot."
HandleAddSlotNoUser ==
    /\ activeSection = "nft-staking"
    /\ ~loadingNFTs
    /\ modalMessage' = "NotAuthenticated"
    /\ UNCHANGED <<activeSection, holderVars, saleVars>>

\* handleBuyTickets without userId: "Please connect your wallet to buy
\* tickets."
HandleBuyTicketsNoUser ==
    /\ activeSection = "raffle-slot"
    /\ ~loadingTickets
    /\ modalMessage' = "NotAuthenticated"
    /\ UNCHANGED <<activeSection, holderVars, saleVars>>

\* handleBuy without userId: "Please connect your wallet to buy $eDINOSUR."
HandleBuyNoUser ==
    /\ activeSection = "edinosur-sale"
    /\ ~loadingPurchaseData
    /\ modalMessage' = "NotAuthenticated"
    /\ UNCHANGED <<activeSection, holderVars, saleVars>>

\* simulateNewReferral without userId: setReferralCount, then
\* updateFirestoreAffiliateData reports "Please connect your wallet to save
\* affiliate data." and the handler overwrites the report with its own
SimulateNewReferralNoUser ==
    /\ activeSection = "affiliate-pages"
    /\ ~loadingAffiliateData
    /\ referralCount < MaxReferrals
    /\ referralCount' = referralCount + 1
    /\ modalMessage' = "ReferralSimulated"
    /\ UNCHANGED <<activeSection, stakingDoc, raffleDoc, stakedNFTs, totalEarned,
                   loadingNFTs, addSlot, ticketQuantity, totalCost, ticketCount,
                   loadingTickets, buyTickets, saleVars, probe, eDinosurVars,
                   dinosurVars, spinVars, lastTick, referralUnclaimed, assetsHad, accrualIntervals, affiliateDoc,
                   referralEarnings, loadingAffiliateData, claimFrames>>

NoUserSections == {"introduction", "nft-staking", "edinosur", "dinosur-coin",
                   "edinosur-sale", "raffle-slot", "affiliate-pages"}

NoUserInit ==
    /\ Constructed
    /\ stakingDoc = AbsentStakingDoc
    /\ raffleDoc = AbsentRaffleDoc
    /\ saleDoc = AbsentSaleDoc
    /\ burnStatsDoc \in {AbsentBurnStatsDoc} \cup PriorBurnStatsDocs
    /\ affiliateDoc = AbsentAffiliateDoc

\* the handlers that have no branch on userId run as in a holder's session
NoUserNext ==
    \/ \E section \in NoUserSections : Navigate(section)
    \/ MountNoUser
    \/ HandleClaimReward
    \/ HandleAddSlotNoUser
    \/ HandleClaimDinosur("ok")
    \/ HandleBurnEDinosur("ok")
    \/ \E io \in WriteOutcomes : DinosurSnapshot(io)
    \/ \E io \in WriteOutcomes : HandleBurnDinosur(io)
    \/ HandleBuyNoUser
    \/ \E q \in 1..MaxQuantity : SetTicketQuantity(q)
    \/ HandleBuyTicketsNoUser
    \/ HandleSpin
    \/ ClaimReferralClick
    \/ SimulateNewReferralNoUser

NoUserSpec == NoUserInit /\ [][NoUserNext]_vars

---------------------------------------------------------------------------
(* The pricing and multiplier functions of NFTStakingSection, applied to the
   NFT collections the section can hold *)

NFTTypes == {"Common", "Rare", "Unique", "King", "Legend", "New Slot"}

\* the NFTs a collection can hold at position id
NFTsAt(id) ==
    [id : {id}, type : NFTTypes, earning : {0}, staked : BOOLEAN,
     lastStakedTime : {0}]

NFTCollections ==
    UNION {{c \in [1..n -> UNION {NFTsAt(i) : i \in 1..n}] :
              \A i \in 1..n : c[i].id = i} : n \in 0..MaxAssets}

\* the section evaluates calculateMultiplier(stakedNFTs)
ApplyCalculateMultiplier ==
    /\ probe' = [fn |-> "calculateMultiplier", nfts |-> stakedNFTs, slotCount |-> 0,
                 result |-> calculateMultiplier(stakedNFTs)]
    /\ UNCHANGED <<activeSection, modalMessage, stakingDoc, raffleDoc, stakedNFTs,
                   totalEarned, loadingNFTs, addSlot, ticketQuantity, totalCost,
                   ticketCount, loadingTickets, buyTickets, saleVars,
                   eDinosurVars, dinosurVars, spinVars, lastTick, referralUnclaimed, assetsHad, accrualIntervals, affiliateVars>>

\* the section evaluates calculateAddSlotCost(currentSlotCount)
ApplyCalculateAddSlotCost(currentSlotCount) ==
    /\ probe' = [fn |-> "calculateAddSlotCost", nfts |-> <<>>,
                 slotCount |-> currentSlotCount,
                 result |-> calculateAddSlotCost(currentSlotCount)]
    /\ UNCHANGED <<activeSection, modalMessage, stakingDoc, raffleDoc, stakedNFTs,
                   totalEarned, loadingNFTs, addSlot, ticketQuantity, totalCost,
                   ticketCount, loadingTickets, buyTickets, saleVars,
                   eDinosurVars, dinosurVars, spinVars, lastTick, referralUnclaimed, assetsHad, accrualIntervals, affiliateVars>>

\* the interval callback classifies the final reels it drew
ApplySpinResultOf(finalReel1, finalReel2, finalReel3) ==
    /\ probe' = [fn |-> "spinResult",
                 reels |-> <<finalReel1, finalReel2, finalReel3>>,
                 result |-> SpinResultOf(finalReel1, finalReel2, finalReel3)]
    /\ UNCHANGED <<activeSection, modalMessage, stakingDoc, raffleDoc, stakedNFTs,
                   totalEarned, loadingNFTs, addSlot, ticketQuantity, totalCost,
                   ticketCount, loadingTickets, buyTickets, saleVars,
                   eDinosurVars, dinosurVars, spinVars, lastTick, referralUnclaimed, assetsHad, accrualIntervals, affiliateVars>>

PolicyInit ==
    /\ activeSection = "nft-staking"
    /\ modalMessage = "none"
    /\ stakingDoc = AbsentStakingDoc
    /\ raffleDoc = AbsentRaffleDoc
    /\ stakedNFTs \in NFTCollections
    /\ totalEarned = 0
    /\ loadingNFTs = FALSE
    /\ addSlot = IdleAddSlot
    /\ ticketQuantity = 1
    /\ totalCost = EDINOSUR_TICKET_COST
    /\ ticketCount = 0
    /\ loadingTickets = TRUE
    /\ buyTickets = IdleBuyTickets
    /\ now = 0
    /\ saleStartTime = NullDate
    /\ saleStarted = FALSE
    /\ currentEpoch = 0
    /\ currentPrice = initialPrice
    /\ userPurchasedUSD = 0
    /\ userPurchasedUSDInCurrentEpoch = 0
    /\ lastPurchaseEpoch = -1
    /\ loadingPurchaseData = TRUE
    /\ saleDoc = AbsentSaleDoc
    /\ buyFrames = [i \in 1..MaxInFlight |-> IdleBuy]
    /\ paidInEpoch = 0
    /\ saleStarts = <<>>
    /\ seenLive = FALSE
    /\ lastReport = "none"
    /\ probe = NoProbe
    /\ lastTick = 0
    /\ referralUnclaimed = 0
    /\ assetsHad = {}
    /\ accrualIntervals = 0
    /\ saleIntervals = 0
    /\ eDinosurBalance = 0
    /\ readyToBurnEDinosur = 0
    /\ totalBurntEDinosur = 0
    /\ loadingEDinosur = TRUE
    /\ burnStatsDoc = AbsentBurnStatsDoc
    /\ readyToBurnDinosur = 0
    /\ totalBurntDinosur = 0
    /\ loadingBurnStats = TRUE
    /\ alertMessage = "none"
    /\ isSpinning = FALSE
    /\ spinIntervals = <<>>
    /\ affiliateDoc = AbsentAffiliateDoc
    /\ referralCount = 0
    /\ referralEarnings = 0
    /\ loadingAffiliateData = TRUE
    /\ claimFrames = [i \in 1..MaxInFlight |-> IdleClaimReferral]

PolicyNext ==
    \/ ApplyCalculateMultiplier
    \/ \E currentSlotCount \in 0..MaxSlotCount :
         ApplyCalculateAddSlotCost(currentSlotCount)
    \/ \E finalReel1, finalReel2, finalReel3 \in ReelSymbols :
         ApplySpinResultOf(finalReel1, finalReel2, finalReel3)

PolicySpec == PolicyInit /\ [][PolicyNext]_vars

---------------------------------------------------------------------------
(* The token sale: a session in which the holder opens the sale view *)

\* what an earlier session can have left in the purchase document: 750
\* dollars bought in all, and the reset of its last epoch change
PriorSaleDocs ==
    { [exists |-> TRUE, totalPurchasedUSD |-> Usd(750),
       userPurchasedUSDInCurrentEpoch |-> 0, lastPurchaseEpoch |-> 0] }

SaleInit ==
    /\ activeSection = "introduction"
    /\ modalMessage = "none"
    /\ stakingDoc = AbsentStakingDoc
    /\ raffleDoc = AbsentRaffleDoc
    /\ stakedNFTs = <<>>
    /\ totalEarned = 0
    /\ loadingNFTs = TRUE
    /\ addSlot = IdleAddSlot
    /\ ticketQuantity = 1
    /\ totalCost = EDINOSUR_TICKET_COST
    /\ ticketCount = 0
    /\ loadingTickets = TRUE
    /\ buyTickets = IdleBuyTickets
    /\ now = 0
    /\ saleStartTime = NullDate
    /\ saleStarted = FALSE
    /\ currentEpoch = 0
    /\ currentPrice = initialPrice
    /\ userPurchasedUSD = 0
    /\ userPurchasedUSDInCurrentEpoch = 0
    /\ lastPurchaseEpoch = -1
    /\ loadingPurchaseData = TRUE
    /\ saleDoc \in {AbsentSaleDoc} \cup PriorSaleDocs
    /\ buyFrames = [i \in 1..MaxInFlight |-> IdleBuy]
    /\ paidInEpoch = 0
    /\ saleStarts = <<>>
    /\ seenLive = FALSE
    /\ lastReport = "none"
    /\ probe = NoProbe
    /\ lastTick = 0
    /\ referralUnclaimed = 0
    /\ assetsHad = {}
    /\ accrualIntervals = 0
    /\ saleIntervals = 0
    /\ eDinosurBalance = 0
    /\ readyToBurnEDinosur = 0
    /\ totalBurntEDinosur = 0
    /\ loadingEDinosur = TRUE
    /\ burnStatsDoc = AbsentBurnStatsDoc
    /\ readyToBurnDinosur = 0
    /\ totalBurntDinosur = 0
    /\ loadingBurnStats = TRUE
    /\ alertMessage = "none"
    /\ isSpinning = FALSE
    /\ spinIntervals = <<>>
    /\ affiliateDoc = AbsentAffiliateDoc
    /\ referralCount = 0
    /\ referralEarnings = 0
    /\ loadingAffiliateData = TRUE
    /\ claimFrames = [i \in 1..MaxInFlight |-> IdleClaimReferral]

SaleNext ==
    \/ Navigate("edinosur-sale")
    \/ AdvanceClock
    \/ \E io \in WriteOutcomes : SaleSnapshot(io)
    \/ \E io \in WriteOutcomes : SaleTick(io)
    \/ \E buyAmount \in BuyAmounts, io \in WriteOutcomes : HandleBuy(buyAmount, io)
    \/ \E i \in 1..MaxInFlight : HandleBuyResume(i)

SaleSpec == SaleInit /\ [][SaleNext]_vars

\* the same session when the holder also leaves the sale view and comes
\* back; the buys are all of 3,000,000 tokens
RemountBuyAmounts == {"3"}

RemountNext ==
    \/ Navigate("edinosur-sale")
    \/ Navigate("introduction")
    \/ AdvanceClock
    \/ \E io \in WriteOutcomes : SaleSnapshot(io)
    \/ \E io \in WriteOutcomes : SaleTick(io)
    \/ \E buyAmount \in RemountBuyAmounts, io \in WriteOutcomes :
         HandleBuy(buyAmount, io)
    \/ \E i \in 1..MaxInFlight : HandleBuyResume(i)

RemountSpec == SaleInit /\ [][RemountNext]_vars

---------------------------------------------------------------------------
(* Properties of the holder's purchases, checked under Spec *)

\* the balance the purchases read: the persisted earned, 0 without a document
PersistedBalance == IF stakingDoc.exists THEN stakingDoc.earned ELSE 0

PersistedReadyToBurn == IF stakingDoc.exists THEN stakingDoc.readyToBurnEDinosur ELSE 0

\* handleAddSlot has read the document and finds the balance below the cost
SlotRefused ==
    /\ \E io \in WriteOutcomes : AddSlotResume(io)
    /\ PersistedBalance < calculateAddSlotCost(Len(stakingDoc.nfts))

\* handleBuyTickets has read the document and finds the balance below totalCost
TicketsRefused ==
    /\ \E io \in WriteOutcomes : BuyTicketsRead(io)
    /\ PersistedBalance < buyTickets.totalCost

\* C1: a slot purchase or a ticket purchase that reads a balance B below its
\* cost C reports InsufficientBalance and leaves the balance, readyToBurn, the
\* assets and the ticket count as they were, persisted and in memory.
C1_InsufficientBalanceChangesNothing ==
    [][ (SlotRefused \/ TicketsRefused) =>
            /\ modalMessage' = "InsufficientBalance"
            /\ UNCHANGED <<stakingDoc, raffleDoc, stakedNFTs, totalEarned, ticketCount>>
      ]_vars

\* a slot purchase was refused at balance 0 and cost 200000, and nothing was
\* persisted
C1_Witness ==
    /\ modalMessage = "InsufficientBalance"
    /\ addSlot.pc = "idle"
    /\ activeSection = "nft-staking"
    /\ ~loadingNFTs
    /\ stakingDoc.exists
    /\ stakingDoc.earned = 0
    /\ stakingDoc.nfts = <<>>

\* handleAddSlot has read a balance that covers the cost and its write is
\* accepted
SlotPurchased ==
    /\ AddSlotResume("ok")
    /\ PersistedBalance >= calculateAddSlotCost(Len(stakingDoc.nfts))

\* C2: a successful slot purchase lowers the balance by the cost, raises
\* readyToBurn by half the cost (the other half is stored nowhere) and appends
\* one unstaked asset of type New Slot, earning 0, with id = largest id + 1
\* (1 if there is none).
C2_SlotPurchaseEffects ==
    [][ SlotPurchased =>
          LET cost == calculateAddSlotCost(Len(stakingDoc.nfts))
              ids == {stakingDoc.nfts[i].id : i \in 1..Len(stakingDoc.nfts)}
              id == IF ids = {} THEN 1 ELSE Max(ids) + 1
              asset == [id |-> id, type |-> "New Slot", earning |-> 0,
                        staked |-> FALSE, lastStakedTime |-> 0]
          IN  /\ stakingDoc'.exists
              /\ stakingDoc'.earned = stakingDoc.earned - cost
              /\ 2 * (stakingDoc'.readyToBurnEDinosur - stakingDoc.readyToBurnEDinosur) = cost
              /\ stakingDoc'.nfts = Append(stakingDoc.nfts, asset)
              /\ addSlot.attached => stakedNFTs' = stakingDoc'.nfts
              /\ UNCHANGED <<raffleDoc, ticketCount, totalEarned>>
      ]_vars

\* balance 200000 and cost 200000 gave balance 0, readyToBurn 100000 and one
\* more asset
C2_Witness ==
    /\ modalMessage = "SlotPurchase"
    /\ stakingDoc.earned = 0
    /\ stakingDoc.readyToBurnEDinosur = 100000
    /\ Len(stakingDoc.nfts) = 1
    /\ stakingDoc.nfts[1].id = 1
    /\ stakedNFTs = stakingDoc.nfts

\* handleBuyTickets has read a balance that covers totalCost and the ticket
\* write is accepted
TicketsCredited ==
    /\ BuyTicketsRead("ok")
    /\ PersistedBalance >= buyTickets.totalCost

\* the write of the balance that ends handleBuyTickets is accepted
TicketsDebited ==
    /\ BuyTicketsDebit("ok")
    /\ stakingDoc.exists

C4_TicketPurchaseIsOneUpdate ==
    ~ /\ buyTickets.pc = "setDoc"
      /\ raffleDoc.exists
      /\ raffleDoc.tickets = buyTickets.ticketCount + buyTickets.ticketQuantity
      /\ stakingDoc.earned = buyTickets.earned
      /\ stakingDoc.readyToBurnEDinosur = buyTickets.readyToBurnEDinosur

---------------------------------------------------------------------------
(* Properties of the token sale, checked under SaleSpec *)

\* the price of a million tokens in epoch e: 50 dollars, 10% more per epoch
EpochPrice(e) == (Usd(50) * Pow(11, e)) \div Pow(10, e)

\* the cost of the amount typed, at the price of the epoch the view shows
CostOfAmount(buyAmount) == parseFloat(buyAmount).value * EpochPrice(currentEpoch)

\* C5: the lifetime amount is between 0 and 1000 dollars, the epoch amount
\* between 0 and 250 dollars and the last recorded epoch at least -1, in the
\* persisted record and in memory.
C5_SaleAccountRanges ==
    /\ saleDoc.totalPurchasedUSD >= 0
    /\ saleDoc.totalPurchasedUSD <= Usd(1000)
    /\ saleDoc.userPurchasedUSDInCurrentEpoch >= 0
    /\ saleDoc.userPurchasedUSDInCurrentEpoch <= Usd(250)
    /\ saleDoc.lastPurchaseEpoch >= -1
    /\ userPurchasedUSD >= 0
    /\ userPurchasedUSD <= Usd(1000)
    /\ userPurchasedUSDInCurrentEpoch >= 0
    /\ userPurchasedUSDInCurrentEpoch <= Usd(250)
    /\ lastPurchaseEpoch >= -1

\* purchases in two epochs: 250 dollars on record for epoch 1 on top of the
\* 250 of epoch 0
C5_Witness ==
    /\ saleDoc.exists
    /\ saleDoc.lastPurchaseEpoch = 1
    /\ saleDoc.userPurchasedUSDInCurrentEpoch = Usd(165)
    /\ saleDoc.totalPurchasedUSD = Usd(415)
    /\ userPurchasedUSD = Usd(415)

\* C6: the cost of the successful purchases within one epoch never exceeds
\* 250 dollars.
C6_EpochCapHolds == paidInEpoch <= Usd(250)

\* C7: every purchase is evaluated against the index and the price of the
\* epoch that contains now, and against an epoch amount that has been reset
\* if the last recorded epoch is an earlier one.
C7_BuyEvaluatedInEpochOfNow ==
    [][ (saleStarted /\ \E buyAmount \in BuyAmounts, io \in WriteOutcomes :
                            HandleBuy(buyAmount, io)) =>
            /\ currentEpoch = WallEpoch(now)
            /\ currentPrice = EpochPrice(WallEpoch(now))
            /\ lastPurchaseEpoch # WallEpoch(now) => userPurchasedUSDInCurrentEpoch = 0
      ]_vars

\* C8: once the record carries the epoch that contains now, no step sets
\* an epoch amount recorded in it back to 0.
C8_ResetOncePerEpoch ==
    [][ (/\ saleDoc.exists
         /\ saleDoc.lastPurchaseEpoch = WallEpoch(now)
         /\ saleDoc.userPurchasedUSDInCurrentEpoch > 0
         /\ now' = now) =>
            saleDoc'.userPurchasedUSDInCurrentEpoch # 0
      ]_vars

\* what the checks of a purchase answer, in their order of precedence
ExpectedBuyOutcome(buyAmount) ==
    IF ~saleStarted THEN "SaleNotLive"
    ELSE IF parseFloat(buyAmount).nan \/ parseFloat(buyAmount).value <= 0
         THEN "InvalidAmount"
    ELSE IF userPurchasedUSD + CostOfAmount(buyAmount) > Usd(1000)
         THEN "WalletCapExceeded"
    ELSE IF userPurchasedUSDInCurrentEpoch + CostOfAmount(buyAmount) > Usd(250)
         THEN "EpochCapExceeded"
    ELSE "Simulating"

\* C9: a purchase fails with SaleNotLive while no tick has observed the sale
\* started, with InvalidAmount for an amount that is not a number or is <= 0,
\* with WalletCapExceeded when lifetime + cost > 1000 and with
\* EpochCapExceeded when epoch amount + cost > 250, in this order of
\* precedence and with cost = amount x price of the current epoch; a failing
\* purchase changes neither the record nor the amounts in memory; a purchase
\* that no check refuses, one landing exactly on a cap included, goes on to
\* its write.
C9_BuyErrorPrecedence ==
    [][ \A buyAmount \in BuyAmounts :
          (\E io \in WriteOutcomes : HandleBuy(buyAmount, io)) =>
              /\ modalMessage' = ExpectedBuyOutcome(buyAmount)
              /\ ExpectedBuyOutcome(buyAmount) # "Simulating" =>
                     UNCHANGED <<saleDoc, userPurchasedUSD,
                                 userPurchasedUSDInCurrentEpoch, lastPurchaseEpoch,
                                 buyFrames>>
              /\ ExpectedBuyOutcome(buyAmount) = "Simulating" =>
                     \E i \in 1..MaxInFlight :
                         /\ buyFrames[i].pc = "idle"
                         /\ buyFrames'[i].pc = "updateDoc"
                         /\ buyFrames'[i].costUSD = CostOfAmount(buyAmount)
      ]_vars

\* a purchase of 250 dollars on top of 750 was accepted, and the next one
\* is refused for the wallet cap although the epoch cap is exceeded too
C9_Witness ==
    /\ modalMessage = "WalletCapExceeded"
    /\ saleDoc.totalPurchasedUSD = Usd(1000)
    /\ userPurchasedUSD = Usd(1000)
    /\ userPurchasedUSDInCurrentEpoch = Usd(250)
    /\ lastPurchaseEpoch = 0

\* C10: a purchase that succeeds records the lifetime amount it was checked
\* against + cost, the epoch amount it was checked against + cost and the
\* current epoch in the persisted record, and sets the same three values in
\* memory once the write is acknowledged.
C10_SuccessfulBuyEffects ==
    /\ [][ \A buyAmount \in BuyAmounts :
             (HandleBuy(buyAmount, "ok") /\ saleDoc.exists
                  /\ modalMessage' = "Simulating") =>
                 /\ saleDoc'.totalPurchasedUSD = userPurchasedUSD + CostOfAmount(buyAmount)
                 /\ saleDoc'.userPurchasedUSDInCurrentEpoch =
                        userPurchasedUSDInCurrentEpoch + CostOfAmount(buyAmount)
                 /\ saleDoc'.lastPurchaseEpoch = currentEpoch
                 /\ CostOfAmount(buyAmount) > 0 ]_vars
    /\ [][ \A i \in 1..MaxInFlight :
             (HandleBuyResume(i) /\ modalMessage' = "Success") =>
                 /\ userPurchasedUSD' = buyFrames[i].newTotalPurchasedUSD
                 /\ userPurchasedUSDInCurrentEpoch' =
                        buyFrames[i].newPurchasedUSDInCurrentEpoch
                 /\ lastPurchaseEpoch' = buyFrames[i].currentEpoch
                 /\ UNCHANGED saleDoc ]_vars

\* 150 dollars bought in epoch 0 by a new wallet: on record and in memory
C10_Witness ==
    /\ modalMessage = "Success"
    /\ saleDoc.totalPurchasedUSD = Usd(150)
    /\ saleDoc.userPurchasedUSDInCurrentEpoch = Usd(150)
    /\ saleDoc.lastPurchaseEpoch = 0
    /\ userPurchasedUSD = Usd(150)
    /\ userPurchasedUSDInCurrentEpoch = Usd(150)
    /\ lastPurchaseEpoch = 0

---------------------------------------------------------------------------
(* Properties of the sale schedule, checked under RemountSpec and SaleSpec *)

\* C11: the sale start date T0 is computed once; every later observation of
\* the session, whatever ticks, section changes and purchases came between,
\* sees the value computed at the first one.
C11_SaleStartComputedOnce ==
    /\ \A i \in 1..Len(saleStarts) : saleStarts[i] = saleStarts[1]
    /\ saleStartTime # NullDate => saleStartTime = saleStarts[1]

\* C12: Pending to Live is irreversible: once a tick has reported Live, no
\* later tick of the session reports Pending.
C12_LiveIsIrreversible == seenLive => lastReport = "Live"

\* C13: a tick reports Pending exactly when now < T0 and Live exactly when
\* now >= T0; a tick at now = T0 reports Live with epoch index 0.
C13_LiveFromSaleStart ==
    [][(\E io \in WriteOutcomes : SaleTick(io)) =>
         /\ saleStarted' = (now >= saleStartTime)
         /\ lastReport' = (IF now >= saleStartTime THEN "Live" ELSE "Pending")
         /\ now = saleStartTime => currentEpoch' = 0]_vars

\* C14: a tick after the sale start reports the epoch e with
\* T0 + 7e <= now < T0 + 7(e + 1), that is floor((now - T0) / 7 days), and
\* the price basePrice * 1.10^e; neither the epoch nor the price reported
\* by successive ticks ever falls.
C14_EpochAndPriceOfTick ==
    [][(\E io \in WriteOutcomes : SaleTick(io)) =>
         /\ saleStarted' =>
               /\ currentEpoch' >= 0
               /\ saleStartTime + currentEpoch' * 7 <= now
               /\ now < saleStartTime + (currentEpoch' + 1) * 7
               /\ currentPrice' * Pow(10, currentEpoch')
                     = Usd(50) * Pow(11, currentEpoch')
         /\ currentEpoch' >= currentEpoch
         /\ currentPrice' >= currentPrice]_vars

\* a tick has moved the sale from epoch 0 at 50 dollars to epoch 1 at 55
C14_Witness ==
    /\ lastReport = "Live"
    /\ now >= saleStartTime + 7
    /\ currentEpoch = 1
    /\ currentPrice = Usd(55)

---------------------------------------------------------------------------
(* Properties of the pricing and multiplier functions, checked under
   PolicySpec *)

\* C15: the slot price is 200000 for every slot count 0..3 and
\* 200000 * 1.5^(n - 3) for every n >= 4, so 300000 for 4 slots and 675000
\* for 6; it never falls when the slot count grows.
C15_SlotCost ==
    probe.fn = "calculateAddSlotCost" =>
        LET n == probe.slotCount
        IN  /\ n \in 0..3 => probe.result = 200000
            /\ n >= 4 => probe.result * Pow(2, n - 3) = 200000 * Pow(3, n - 3)
            /\ n = 4 => probe.result = 300000
            /\ n = 6 => probe.result = 675000
            /\ \A m \in 0..n : calculateAddSlotCost(m) <= probe.result

\* the price of the seventh slot has been computed
C15_Witness ==
    /\ probe.fn = "calculateAddSlotCost"
    /\ probe.slotCount = 6
    /\ probe.result = 675000

\* the tiers that carry a multiplier
Tiers == {"Common", "Rare", "Unique", "King", "Legend"}

\* the tiers of the staked assets of a collection
StakedTiers(nfts) ==
    {t \in Tiers : \E i \in 1..Len(nfts) : nfts[i].staked /\ nfts[i].type = t}

\* C16: the multiplier depends only on the set S of tiers of the staked
\* assets: 1.00 when S is empty, else 1.50 with a Legend, else 1.30 with a
\* King, else 1.15 with a Unique, else 1.05 (Common or Rare); neither the
\* number of assets of a tier nor any unstaked asset changes it.
C16_MultiplierOfStakedTiers ==
    probe.fn = "calculateMultiplier" =>
        LET S == StakedTiers(probe.nfts)
        IN  probe.result =
                IF S = {} THEN 100
                ELSE IF "Legend" \in S THEN 150
                ELSE IF "King" \in S THEN 130
                ELSE IF "Unique" \in S THEN 115
                ELSE 105

\* a collection of two staked Kings and an unstaked Legend has been given
\* the multiplier of the King
C16_Witness ==
    /\ probe.fn = "calculateMultiplier"
    /\ Len(probe.nfts) = 3
    /\ \E i, j, k \in 1..3 :
         /\ i # j
         /\ probe.nfts[i].type = "King" /\ probe.nfts[i].staked
         /\ probe.nfts[j].type = "King" /\ probe.nfts[j].staked
         /\ probe.nfts[k].type = "Legend" /\ ~probe.nfts[k].staked
    /\ probe.result = 130

\* C17: a burn on a ledger whose ready amount is 0 reports that there is
\* nothing to burn and changes nothing else; a burn of a positive ready amount
\* sets, in one update, the ready amount to 0 and the burnt total to the burnt
\* total plus the ready amount, so that their sum is what it was, and leaves
\* the other fields of the document alone.  This holds on the holder's ledger
\* (handleBurnEDinosur) and on the public one (handleBurnDinosur); the amounts
\* are the ones the handler evaluates.
C17_BurnAll ==
    [][/\ \A io \in WriteOutcomes : HandleBurnEDinosur(io) =>
            IF readyToBurnEDinosur = 0
            THEN /\ modalMessage' = "NothingToBurn"
                 /\ UNCHANGED <<stakingDoc, raffleDoc, saleDoc, burnStatsDoc,
                                affiliateDoc, eDinosurVars, alertMessage>>
            ELSE (io = "ok" /\ stakingDoc.exists) =>
                 /\ stakingDoc'.readyToBurnEDinosur = 0
                 /\ stakingDoc'.totalBurntEDinosur =
                        totalBurntEDinosur + readyToBurnEDinosur
                 /\ stakingDoc'.readyToBurnEDinosur + stakingDoc'.totalBurntEDinosur =
                        readyToBurnEDinosur + totalBurntEDinosur
                 /\ stakingDoc'.earned = stakingDoc.earned
                 /\ stakingDoc'.nfts = stakingDoc.nfts
                 /\ modalMessage' = "Burnt"
       /\ \A io \in WriteOutcomes : HandleBurnDinosur(io) =>
            IF readyToBurnDinosur = 0
            THEN /\ alertMessage' = "NothingToBurn"
                 /\ UNCHANGED <<stakingDoc, raffleDoc, saleDoc, burnStatsDoc,
                                affiliateDoc, readyToBurnDinosur,
                                totalBurntDinosur, modalMessage>>
            ELSE (io = "ok" /\ burnStatsDoc.exists) =>
                 /\ burnStatsDoc'.readyToBurnDinosur = 0
                 /\ burnStatsDoc'.totalBurntDinosur =
                        totalBurntDinosur + readyToBurnDinosur
                 /\ burnStatsDoc'.readyToBurnDinosur + burnStatsDoc'.totalBurntDinosur =
                        readyToBurnDinosur + totalBurntDinosur
                 /\ alertMessage' = "Burnt"]_vars

\* a slot was bought, its burn amount was burnt on the holder's ledger, and
\* the ready amount of the public ledger was burnt too
C17_Witness ==
    /\ modalMessage = "Burnt"
    /\ stakingDoc.readyToBurnEDinosur = 0
    /\ stakingDoc.totalBurntEDinosur =
           (BASE_ADD_SLOT_EDINOSUR_COST * ADD_SLOT_BURN_AMOUNT_PERCENTAGE) \div 100
    /\ alertMessage = "Burnt"
    /\ burnStatsDoc.readyToBurnDinosur = 0
    /\ burnStatsDoc.totalBurntDinosur = 1000000

\* C18: on the holder's persisted ledger the burnt total never decreases, and
\* the ready amount plus the burnt total never decreases, whichever operation
\* runs: stake, unstake, claim, slot purchase, ticket purchase, spin, referral
\* claim, burn or snapshot delivery.
C18_BurnLedgerNeverDecreases ==
    [][/\ stakingDoc'.totalBurntEDinosur >= stakingDoc.totalBurntEDinosur
       /\ stakingDoc'.readyToBurnEDinosur + stakingDoc'.totalBurntEDinosur >=
              stakingDoc.readyToBurnEDinosur + stakingDoc.totalBurntEDinosur]_vars

\* C19: after any interleaving of accrual ticks, claims, purchases, spins and
\* burns the reward balance, the ready amount and the burnt total are not
\* negative and the ticket count is a natural number, in the persisted
\* documents and in the copies the views hold.
C19_AmountsNotNegative ==
    /\ stakingDoc.earned >= 0
    /\ stakingDoc.readyToBurnEDinosur >= 0
    /\ stakingDoc.totalBurntEDinosur >= 0
    /\ raffleDoc.tickets \in Nat
    /\ totalEarned >= 0
    /\ eDinosurBalance >= 0
    /\ readyToBurnEDinosur >= 0
    /\ totalBurntEDinosur >= 0
    /\ ticketCount \in Nat
    /\ referralEarnings >= 0

\* the balance was spent on a slot and a ticket to the last token, every
\* ticket was spun, and the burn amounts of both purchases were burnt
C19_Witness ==
    /\ stakingDoc.earned = 0
    /\ stakingDoc.readyToBurnEDinosur = 0
    /\ stakingDoc.totalBurntEDinosur =
           SlotBurnAmount(BASE_ADD_SLOT_EDINOSUR_COST)
           + TicketBurnAmount(EDINOSUR_TICKET_COST)
    /\ raffleDoc.tickets = 0
    /\ modalMessage = "Burnt"

\* C20: the holder's burn ledger and the public burn ledger are never
\* combined: a burn on the holder's ledger leaves the public document as it
\* is, the public burn leaves the holder's document as it is, no step changes
\* both, and a slot or ticket purchase changes only the holder's ready amount:
\* it leaves the holder's burnt total and the public document as they are.
C20_LedgersNotCombined ==
    [][/\ (\E io \in WriteOutcomes : HandleBurnEDinosur(io)) =>
              burnStatsDoc' = burnStatsDoc
       /\ (\E io \in WriteOutcomes : HandleBurnDinosur(io)) =>
              stakingDoc' = stakingDoc
       /\ burnStatsDoc' # burnStatsDoc => stakingDoc' = stakingDoc
       /\ ( \/ \E io \in IoOutcomes : AddSlotResume(io)
            \/ \E io \in IoOutcomes : BuyTicketsRead(io)
            \/ \E io \in WriteOutcomes : BuyTicketsDebit(io) ) =>
              /\ burnStatsDoc' = burnStatsDoc
              /\ stakingDoc'.totalBurntEDinosur = stakingDoc.totalBurntEDinosur
              /\ <<readyToBurnDinosur, totalBurntDinosur>>' =
                     <<readyToBurnDinosur, totalBurntDinosur>>]_vars

\* the burn amounts of a slot and of a ticket were burnt on the holder's
\* ledger and the ready amount of the public ledger on the public one: each
\* total holds its own ledger's amount only
C20_Witness ==
    /\ Len(stakingDoc.nfts) = 1
    /\ raffleDoc.tickets = MaxTickets
    /\ stakingDoc.totalBurntEDinosur =
           SlotBurnAmount(BASE_ADD_SLOT_EDINOSUR_COST)
           + TicketBurnAmount(EDINOSUR_TICKET_COST)
    /\ burnStatsDoc.totalBurntDinosur = 1000000
    /\ burnStatsDoc.readyToBurnDinosur = 0

\* C21: while a spin of the account is outstanding a second call of spin is
\* rejected with AlreadySpinning and starts nothing, so that at no time two
\* spins are in flight, whatever the user does in between (clicks, leaving
\* and re-entering the raffle view, ticket purchases).
C21_OneSpinInFlight ==
    [][/\ (HandleSpin /\ spinIntervals # <<>>) =>
              /\ modalMessage' = "AlreadySpinning"
              /\ spinIntervals' = spinIntervals
       /\ Len(spinIntervals') <= 1]_vars

\* C22: the persisted ticket count changes only by a ticket purchase, which
\* adds the purchased quantity, and by the end of an accepted spin, which
\* takes one ticket: with every write committed, a purchase leaves it at the
\* count before plus the quantity and a spin at the count before minus one,
\* also when the purchase is made while the spin is in flight.
C22_TicketsAccounted ==
    [][/\ (\E spinResult \in SpinResults : SpinFinish(spinResult, "ok")) =>
              raffleDoc'.tickets = raffleDoc.tickets - 1
       /\ (BuyTicketsRead("ok") /\ buyTickets'.pc = "setDoc") =>
              raffleDoc'.tickets = raffleDoc.tickets + buyTickets.ticketQuantity
       /\ raffleDoc'.tickets # raffleDoc.tickets =>
              \/ \E spinResult \in SpinDraws : SpinFinish(spinResult, "ok")
              \/ BuyTicketsRead("ok")]_vars

\* C23: a call of spin with a ticket count of 0 (and no spin of this view
\* running) fails with NoTicketsAvailable: the ticket count stays 0 in the
\* view and the persisted count is not written, no spin becomes in flight and
\* no outcome is drawn.
C23_SpinWithoutTickets ==
    [][(HandleSpin /\ ticketCount = 0 /\ ~isSpinning) =>
           /\ modalMessage' = "NoTicketsAvailable"
           /\ modalMessage' \notin SpinResults
           /\ ticketCount' = 0
           /\ raffleDoc' = raffleDoc
           /\ spinIntervals' = spinIntervals
           /\ isSpinning' = FALSE]_vars

\* the last ticket was spun and spin was called once more
C23_Witness ==
    /\ raffleDoc = [exists |-> TRUE, tickets |-> 0]
    /\ activeSection = "raffle-slot"
    /\ ~loadingTickets
    /\ ticketCount = 0
    /\ spinIntervals = <<>>
    /\ modalMessage = "NoTicketsAvailable"

\* C24: the result of a spin is classified, in this order, for every triple
\* of final reels: all three equal -> Jackpot; exactly two of the three equal,
\* in any pair of positions -> two matching; all different -> no win.
C24_SpinResultClassified ==
    probe.fn = "spinResult" =>
        LET r == probe.reels
            distinct == Cardinality({r[1], r[2], r[3]})
        IN  /\ distinct = 1 => probe.result = "Jackpot"
            /\ distinct = 2 => probe.result = "TwoMatching"
            /\ distinct = 3 => probe.result = "NoWin"
            /\ (r[1] = r[3] /\ r[1] # r[2]) => probe.result = "TwoMatching"
            /\ probe.result \in SpinResults

\* the first and the third reel match, the second does not
C24_Witness ==
    /\ probe.fn = "spinResult"
    /\ probe.reels[1] = probe.reels[3]
    /\ probe.reels[1] # probe.reels[2]
    /\ probe.result = "TwoMatching"

\* C25: claiming a positive reward balance sets the balance to 0, in the view
\* and in the persisted record, and reports the claim; claiming a balance of 0
\* reports that there is nothing to claim and changes nothing else.  This
\* holds for the claim of the staking view (handleClaimReward) and for the
\* claim of the $eDINOSUR view (handleClaimDinosur), whose view follows the
\* persisted record with the next snapshot.
C25_ClaimResetsBalance ==
    [][/\ HandleClaimReward =>
            IF totalEarned > 0
            THEN /\ totalEarned' = 0
                 /\ stakingDoc'.earned = 0
                 /\ modalMessage' = "Claimed"
            ELSE /\ modalMessage' = "NothingToClaim"
                 /\ UNCHANGED <<totalEarned, stakingDoc, stakedNFTs>>
       /\ \A io \in WriteOutcomes : HandleClaimDinosur(io) =>
            IF eDinosurBalance > 0
            THEN (io = "ok" /\ stakingDoc.exists) =>
                     /\ stakingDoc'.earned = 0
                     /\ modalMessage' = "Claimed"
            ELSE /\ modalMessage' = "NothingToClaim"
                 /\ UNCHANGED <<stakingDoc, eDinosurVars>>]_vars

\* C26: the reward balance the holder observes in the staking view never
\* decreases except by a claim or by a spend: no other step of a mounted and
\* loaded staking view (a snapshot delivery, a stake, an unstake, a tick)
\* lowers it or discards reward that ticks have accrued.
C26_AccrualMonotonic ==
    [][( /\ activeSection = "nft-staking" /\ ~loadingNFTs
         /\ activeSection' = "nft-staking" /\ ~loadingNFTs'
         /\ totalEarned' < totalEarned ) =>
           \/ HandleClaimReward
           \/ \E io \in IoOutcomes : AddSlotResume(io)]_vars

\* C27: while the staked set does not change, the reward balance advances by
\* the daily earnings of the staked NFTs times the multiplier for the whole
\* time elapsed: what a tick leaves is what was there at the latest tick (or
\* start of the interval) plus the earnings of the time that passed since,
\* however many callbacks ran in between and whether or not the interval was
\* suspended.
C27_AccrualFromElapsedTime ==
    [][AccrualDayUntil(MaxStakingDays) =>
           totalEarned' - totalEarned =
               ActualDailyEarnings(stakedNFTs) * (now' - lastTick)]_vars

\* C28: the reward that accrues in the staking view is the balance a slot
\* purchase spends: when the balance the view shows has reached the cost of
\* a slot, a slot purchase whose read and write succeed goes through.
C28_AccruedRewardIsSpendable ==
    [][( /\ AddSlotResume("ok")
         /\ addSlot.attached
         /\ totalEarned >= calculateAddSlotCost(Len(stakedNFTs)) ) =>
           modalMessage' = "SlotPurchase"]_vars

\* the referral earnings that running claims have credited to the reward
\* balance and not yet zeroed, over the frames 1..n
RECURSIVE CreditedNotZeroed(_)
CreditedNotZeroed(n) ==
    IF n = 0 THEN 0
    ELSE CreditedNotZeroed(n - 1)
         + (IF claimFrames[n].pc = "updateDoc"
            THEN claimFrames[n].referralEarnings ELSE 0)

\* the persisted reward balance and the pending referral earnings together,
\* an amount that a running claim has credited and not yet zeroed counted once
ClaimHoldings ==
    stakingDoc.earned + referralEarnings - CreditedNotZeroed(MaxInFlight)

\* C29: a referral claim whose reads and writes succeed moves the pending
\* referral earnings to the persisted reward balance and zeroes them: the
\* steps of a claim made in the view on screen leave reward balance plus
\* pending earnings unchanged, the
\* reward balance is never credited with more referral earnings than accrued
\* (no amount is claimed twice), and a claim of zero pending earnings reports
\* NothingToClaim and changes nothing else.
C29_ReferralClaimMovesEarnings ==
    [][ /\ ( (\E i \in 1..MaxInFlight :
                 /\ claimFrames[i].attached
                 /\ ClaimReferralCredit(i, "ok") \/ ClaimReferralReset(i, "ok"))
             => ClaimHoldings' = ClaimHoldings )
        /\ referralUnclaimed' >= 0
        /\ ( (ClaimReferralClickWithin(MaxInFlight) /\ referralEarnings = 0)
             => /\ modalMessage' = "NothingToClaim"
                /\ UNCHANGED <<activeSection, holderVars, saleVars>> ) ]_vars

\* a step of one of the mutating operations in the session without an
\* identifier
MutatingOperationNoUser ==
    \/ HandleClaimReward
    \/ HandleAddSlotNoUser
    \/ HandleClaimDinosur("ok")
    \/ HandleBurnEDinosur("ok")
    \/ \E io \in WriteOutcomes : HandleBurnDinosur(io)
    \/ HandleBuyNoUser
    \/ HandleBuyTicketsNoUser
    \/ HandleSpin
    \/ ClaimReferralClick

\* C30: in a session without an identifier every mutating operation reports
\* NotAuthenticated and changes nothing else, neither a document nor the
\* state in memory.
C30_NoIdentifierDisablesMutations ==
    [][MutatingOperationNoUser =>
           /\ modalMessage' = "NotAuthenticated" \/ alertMessage' = "NotAuthenticated"
           /\ UNCHANGED <<activeSection, stakingDoc, raffleDoc, saleDoc,
                          burnStatsDoc, affiliateDoc>>
           /\ UNCHANGED <<stakedNFTs, totalEarned, ticketCount, isSpinning,
                          eDinosurBalance, readyToBurnEDinosur, totalBurntEDinosur,
                          readyToBurnDinosur, totalBurntDinosur, referralCount,
                          referralEarnings, userPurchasedUSD>>]_vars

\* C31: a write that fails leaves the state in memory at the persisted
\* record: after a spin, a ticket purchase, a referral claim, a stake, an
\* unstake or a reward claim whose write did not commit, the tickets, the
\* pending referral earnings, the assets and the reward balance of the view
\* on screen equal the persisted ones.
C31_FailedWriteKeepsMemoryAtRecord ==
    [][ /\ ( ( /\ \E spinResult \in SpinResults :
                     SpinFinish(spinResult, "writeFails")
               /\ Head(spinIntervals).attached )
             => ticketCount' = raffleDoc'.tickets )
        /\ ( ( /\ BuyTicketsRead("writeFails")
               /\ buyTickets.attached )
             => ticketCount' = raffleDoc'.tickets )
        /\ ( (\E i \in 1..MaxInFlight :
                 /\ ClaimReferralReset(i, "writeFails")
                 /\ claimFrames[i].attached)
             => referralEarnings' = affiliateDoc'.referralEarnings )
        /\ ( (\E id \in 1..MaxAssets : HandleStakeNFT(id) \/ HandleUnstakeNFT(id))
             => stakedNFTs' = stakingDoc'.nfts )
        /\ ( HandleClaimReward => totalEarned' = stakingDoc'.earned ) ]_vars

\* C32: assets are never deleted: every asset that the staking view has
\* shown or the document has held is, with its id and tier, in the asset
\* sequence that the loaded staking view shows, the three seed assets of a
\* new wallet included.
C32_AssetsNeverDeleted ==
    (activeSection = "nft-staking" /\ ~loadingNFTs)
        => assetsHad \subseteq AssetsOf(stakedNFTs)

\* C33: the ids of the assets are integers >= 1 and strictly increasing
\* along the sequence, in the view and in the document, also after slot
\* purchases that overlap.
C33_IdsIncreasing ==
    \A nfts \in {stakedNFTs, stakingDoc.nfts} :
        /\ \A i \in 1..Len(nfts) : nfts[i].id \in Nat /\ nfts[i].id >= 1
        /\ \A i \in 1..Len(nfts), j \in 1..Len(nfts) :
               i < j => nfts[i].id < nfts[j].id

\* the first of two overlapping slot purchases has committed and is shown,
\* the second still awaits its read
C33_Witness ==
    /\ activeSection = "nft-staking"
    /\ ~loadingNFTs
    /\ addSlot.pc = "getDoc"
    /\ addSlot.overlapped
    /\ addSlot.attached
    /\ Len(stakedNFTs) >= 1
    /\ stakedNFTs = stakingDoc.nfts

\* what a stake or unstake of the asset id leaves alone: the other assets,
\* the number of assets, the reward balance in memory and the document
StakeFrame(id) ==
    /\ Len(stakedNFTs') = Len(stakedNFTs)
    /\ \A i \in 1..Len(stakedNFTs) :
           stakedNFTs[i].id # id => stakedNFTs'[i] = stakedNFTs[i]
    /\ UNCHANGED <<totalEarned, stakingDoc, eDinosurVars>>

\* the staked set of the next state gives the amount of every later tick
LaterTicksAtNewRate ==
    AccrualDayUntil(MaxStakingDays) =>
        totalEarned' - totalEarned = ActualDailyEarnings(stakedNFTs)

C35_OverlappingBuysAllCounted ==
    [][ \A buyAmount \in BuyAmounts :
          ( /\ HandleBuy(buyAmount, "ok")
            /\ BuyCheck(buyAmount) = "Simulating"
            /\ saleDoc.exists )
          => LET costUSD == parseFloat(buyAmount).value * currentPrice
             IN  /\ saleDoc'.totalPurchasedUSD = saleDoc.totalPurchasedUSD + costUSD
                 /\ saleDoc.lastPurchaseEpoch = currentEpoch =>
                        saleDoc'.userPurchasedUSDInCurrentEpoch =
                            saleDoc.userPurchasedUSDInCurrentEpoch + costUSD ]_vars

\* C36: no write of the reward balance loses an update: the debit of a ticket
\* purchase and of a slot purchase and the credit of a referral claim change
\* the persisted balance of the moment of the write by their amount, whatever
\* has been claimed, spent or credited since the balance was read.
C36_NoLostBalanceUpdate ==
    [][ /\ ( BuyTicketsDebit("ok") /\ stakingDoc.exists )
             => stakingDoc'.earned = stakingDoc.earned - buyTickets.totalCost
        /\ ( AddSlotResume("ok") /\ modalMessage' = "SlotPurchase" )
             => stakingDoc'.earned =
                    stakingDoc.earned - calculateAddSlotCost(Len(stakingDoc.nfts))
        /\ \A i \in 1..MaxInFlight :
             ( ClaimReferralCredit(i, "ok") /\ stakingDoc.exists )
             => stakingDoc'.earned =
                    stakingDoc.earned + claimFrames[i].referralEarnings ]_vars

\* C37: every accepted spin completes. Under fair firing of the timer of the
\* oldest interval, intervals that run lead to no interval running and a view
\* that is spinning leads to a view that is not; the interval ends in the
\* callback where its spinTimer reaches spinDuration (2000 ms in steps of
\* 100 ms), and that callback persists one ticket less than the spin was
\* started with, reports a result of the final reels and leaves the view
\* spinning only if another interval of that view still runs.
C37_SpinCompletes ==
    /\ [][Len(spinIntervals') < Len(spinIntervals) =>
             LET spin == Head(spinIntervals)
             IN  /\ SpinTimerAfter(spin.spinTimer) = spinDuration
                 /\ raffleDoc' = [exists |-> TRUE, tickets |-> spin.ticketCount - 1]
                 /\ modalMessage' \in SpinResults
                 /\ spin.attached => /\ ~isSpinning'
                                     /\ ticketCount' = spin.ticketCount - 1
                 /\ isSpinning' =>
                        \E i \in 1..Len(spinIntervals') : spinIntervals'[i].attached]_vars
    /\ (spinIntervals # <<>>) ~> (spinIntervals = <<>>)
    /\ isSpinning ~> ~isSpinning

\* a spin whose view was left runs its last callback while a later spin of
\* the view that is shown is under way
C37_Witness ==
    /\ Len(spinIntervals) = 2
    /\ ~spinIntervals[1].attached
    /\ spinIntervals[1].spinTimer = spinDuration - spinInterval
    /\ spinIntervals[2].attached
    /\ spinIntervals[2].spinTimer > 0
    /\ isSpinning

\* C38: at most one interval of the accrual effect and at most one interval
\* of the countdown effect of the sale view is set and not cleared at any
\* time, whatever snapshots, stakes, unstakes and changes of view occur, and
\* a day that elapses is credited to the in-memory reward at most once: the
\* reward of a day of the staked NFTs.
C38_OneTimerPerEffect ==
    /\ [](accrualIntervals <= 1 /\ saleIntervals <= 1)
    /\ [][now' # now =>
             totalEarned' - totalEarned <= ActualDailyEarnings(stakedNFTs)]_vars

\* the accrual interval has credited the reward of a staked NFT in a staking
\* view entered after the sale view was shown and its interval had fired
C38_Witness ==
    /\ activeSection = "nft-staking"
    /\ accrualIntervals = 1
    /\ totalEarned > 0
    /\ now = MaxTimerDays
    /\ saleStarts # <<>>
    /\ lastReport # "none"

\* C39: the epoch reset changes the per-epoch amount only. A tick that finds
\* the sale Live in an epoch other than lastPurchaseEpoch sets the in-memory
\* per-epoch amount to 0 and leaves the in-memory lifetime amount as it was;
\* its write, when it is committed, sets the persisted per-epoch amount to 0
\* and the persisted lastPurchaseEpoch to the epoch of the tick and changes
\* no other field, and when it is not committed the document is unchanged;
\* after the tick a buy is refused for the wallet cap exactly when the
\* lifetime amount of before the tick and its cost exceed the cap.
C39_EpochResetFrame ==
    [][\A io \in WriteOutcomes :
         ( /\ SaleTick(io)
           /\ saleStartTime - now < 0
           /\ EpochAt(now, saleStartTime) # lastPurchaseEpoch )
         => /\ userPurchasedUSDInCurrentEpoch' = 0
            /\ userPurchasedUSD' = userPurchasedUSD
            /\ saleDoc' = IF io = "ok" /\ saleDoc.exists
                          THEN [saleDoc EXCEPT
                                  !.userPurchasedUSDInCurrentEpoch = 0,
                                  !.lastPurchaseEpoch = EpochAt(now, saleStartTime)]
                          ELSE saleDoc
            /\ \A buyAmount \in BuyAmounts :
                  BuyCheck(buyAmount)' = "WalletCapExceeded"
                  <=> /\ ~parseFloat(buyAmount).nan
                      /\ parseFloat(buyAmount).value > 0
                      /\ userPurchasedUSD
                           + parseFloat(buyAmount).value
                             * PriceAt(EpochAt(now, saleStartTime))
                         > Usd(MAX_WALLET_PURCHASE_USD)]_vars

\* after a purchase in epoch 0 the reset of epoch 1 was committed and
\* delivered, and a buy was refused for the wallet cap over the lifetime
\* amount of both epochs
C39_Witness ==
    /\ currentEpoch = 1
    /\ saleDoc.exists
    /\ saleDoc.totalPurchasedUSD > Usd(750)
    /\ paidInEpoch = 0
    /\ saleDoc.userPurchasedUSDInCurrentEpoch = 0
    /\ saleDoc.lastPurchaseEpoch = 1
    /\ lastPurchaseEpoch = 1
    /\ userPurchasedUSD = saleDoc.totalPurchasedUSD
    /\ userPurchasedUSDInCurrentEpoch = 0
    /\ modalMessage = "WalletCapExceeded"

\* C40: a spin that is under way can end in each of the three classes: each
\* is the result of some draw of the three reels from the symbols the
\* program defines, which hold at least three distinct values.
C40_EveryClassDrawn ==
    spinIntervals # <<>> =>
        /\ \A spinResult \in SpinResults : spinResult \in SpinDraws
        /\ Cardinality(SymbolDraws) >= 3

====
